---------------------------- MODULE Spec2Model ----------------------------
(***************************************************************************)
(* Capture & shortcut orchestration of the overlay application             *)
(* (src/app/main.ts, src/app/utils).                                       *)
(*                                                                         *)
(* The main process runs on one event loop.  An action of this module is   *)
(* one run-to-completion segment of a handler: from its entry, or from the *)
(* resumption of an await that needs the event loop (file I/O, a child     *)
(* process, a timer), up to its next such await or its return.  Awaits on  *)
(* already-settled promises (registerShortcut has no real await inside)    *)
(* resume in microtasks and so stay inside the segment.                    *)
(***************************************************************************)
EXTENDS Integers, Sequences, FiniteSets, TLC

VARIABLES
    phase,                \* "boot" before app.whenReady resolves, then "ready"
    currentShortcuts,     \* main.ts:47   the in-memory binding table
    registeredShortcuts,  \* main.ts:48   Map accelerator -> handler
    shortcutsDisabled,    \* main.ts:375
    osTable,              \* Electron's globalShortcut table of this process
    foreign,              \* accelerators held by other applications
    disk,                 \* content of shortcuts.json
    inflight,             \* settings handlers suspended inside saveShortcuts
    rpcLimit,             \* settings calls the renderer leaves unanswered at a time
    ev,                   \* the handler segment that ran last, with its result
    clipboard,            \* text on the system clipboard
    selection,            \* text selected in the frontmost application ("" if none)
    keystrokes,           \* copy chords sent to that application, not yet acted on
    captures,             \* captureSelectedText calls suspended at an await
    captureLimit,         \* text captures that may be in flight at a time
    lastCapture,          \* the captureSelectedText call that returned last
    suspendedFrom,        \* the OS table disable-shortcuts found, while it can be compared
    overlay,              \* main.ts:12  "null", or the window: "hidden" or "visible"
    escapeRegistered,     \* main.ts:13
    windows,              \* BrowserWindow objects constructed and not closed
    escapeRefused,        \* the last globalShortcut.register('Escape') returned false
    escapeCall,           \* the globalShortcut call for 'Escape' the last overlay operation made
    deferred,             \* the window's all-workspaces flag and the pending setTimeout callbacks
    regions,              \* captureRegion calls suspended at an await
    tmpFiles,             \* the icx-<n>.png files in the temp directory, by n
    now,                  \* Date.now()
    lastTmp,              \* the n of the temp path computed last (-1: none yet)
    lastHandler,          \* the action handler that returned last
    ui                    \* the settings UI: its React state and its IPC calls in flight

settingsVars == <<phase, currentShortcuts, registeredShortcuts, shortcutsDisabled,
                  osTable, foreign, disk, inflight, rpcLimit>>

captureVars == <<clipboard, selection, keystrokes, captures, captureLimit, lastCapture>>

\* settingsVars without the OS table
registryVars == <<phase, currentShortcuts, registeredShortcuts, shortcutsDisabled,
                  foreign, disk, inflight, rpcLimit>>

overlayVars == <<overlay, escapeRegistered, windows, escapeRefused, escapeCall, deferred>>

regionVars == <<regions, tmpFiles, now, lastTmp>>

handlerVars == <<overlayVars, regionVars, lastHandler>>

vars == <<settingsVars, ev, captureVars, suspendedFrom, handlerVars, ui>>

---------------------------------------------------------------------------
(* Bounds of the model *)

MaxInFlight == 2     \* settings handlers that may be suspended at once
MaxKeystrokes == 2   \* copy chords the frontmost application may have queued
MaxCaptures == 2     \* text captures that may be in flight at once
MaxRegions == 2      \* region captures that may be in flight at once
MaxClock == 1        \* milliseconds the clock advances
MaxTimers == 4       \* setTimeout callbacks that may be pending at once
MaxQueue == 2        \* IPC requests the main process has not handled yet

---------------------------------------------------------------------------
(* Constants of the program *)

ShortcutKeys == <<"screenshotChat", "screenshotExplain", "textSelection">>

Keys == {ShortcutKeys[i] : i \in 1..Len(ShortcutKeys)}

DEFAULT_SHORTCUTS ==
    [k \in Keys |->
        CASE k = "screenshotChat"    -> "CommandOrControl+Shift+X"
          [] k = "screenshotExplain" -> "CommandOrControl+Shift+E"
          [] k = "textSelection"     -> "CommandOrControl+Shift+C"]

PROTECTED_SHORTCUTS ==
    { "CommandOrControl+C", "CommandOrControl+V", "CommandOrControl+X",
      "CommandOrControl+A", "CommandOrControl+Z", "CommandOrControl+Shift+Z",
      "CommandOrControl+Y", "CommandOrControl+S", "CommandOrControl+W",
      "CommandOrControl+Q", "CommandOrControl+N", "CommandOrControl+O",
      "CommandOrControl+P", "CommandOrControl+T", "CommandOrControl+Tab",
      "CommandOrControl+Space", "CommandOrControl+Shift+Space", "Escape" }

\* The accelerators the settings UI is made to send in this model: the three
\* defaults, one free chord, and two protected ones.
InputAccelerators ==
    { "CommandOrControl+Shift+X", "CommandOrControl+Shift+E",
      "CommandOrControl+Shift+C", "Alt+K", "CommandOrControl+C", "Escape" }

\* The calls made while other calls are unanswered
OverlapKeys == { "screenshotChat", "screenshotExplain" }

OverlapAccelerators ==
    { "CommandOrControl+Shift+X", "CommandOrControl+Shift+E", "Alt+K", "Escape" }

\* The accelerators other applications are made to take in this model
ForeignAccelerators == { "Alt+K" }

NoConfig == [k \in Keys |-> "-"]

\* shortcuts.json is absent, unparsable, or holds a configuration
NoFile == [kind |-> "none", config |-> NoConfig]
Malformed == [kind |-> "malformed", config |-> NoConfig]
FileOf(config) == [kind |-> "json", config |-> config]

\* Clipboard and selection texts of the model
ClipValues == { "", " ", "orig", "hello" }

\* captureSelectedText returned null
Null == "<null>"

maxAttempts == 10

\* copyStrategies = [sendCmdCWithKeyCode, sendCmdCWithKeystroke]
CopyStrategies == 2

\* result, originalText: what the call returned and what it had read at its
\* start.  reads, delays: its clipboard.readText calls after the copy command
\* and its delay(80) calls in the poll loop.  threw: triggerCopyCommand threw.
\* wrote: the application's copy changed the clipboard while the call was in
\* flight.  solo: no other capture was in flight during the call.
NoCapture ==
    [returned |-> FALSE, result |-> Null, originalText |-> "", reads |-> 0,
     delays |-> 0, threw |-> FALSE, wrote |-> FALSE, solo |-> TRUE]

\* The accelerators another application may hold while the overlay is in use
OverlayForeign == { "Escape" }

\* key: the action.  result: "Image" or "Text" (the capture gave an
\* artifact), "Cancelled" (screencapture failed), "Failed" (the image could
\* not be read, or captureSelectedText returned null), "Blank" (the captured
\* text is empty after trim).  shown: showOverlayNearCursor had been called
\* when the artifact was sent.  sent: webContents.send calls that reached the
\* window.  dropped: the optional chaining of the send found overlay null.
\* reads, unlinks: the fs.readFile and fs.unlink calls of the capture.
\* reshown, built: showOverlayNearCursor found the window visible, found no
\* window.
NoHandler ==
    [key |-> "-", result |-> "-", shown |-> FALSE, sent |-> 0, dropped |-> FALSE,
     reads |-> 0, unlinks |-> 0, reshown |-> FALSE, built |-> FALSE]

\* History for the suspend/resume properties.  valid: disable-shortcuts ran
\* with shortcuts enabled and no settings call unanswered, and since then no
\* update or reset call changed a binding and no other application took or
\* gave up an accelerator.  os: the OS table disable-shortcuts found.
NoSnapshot == [valid |-> FALSE, os |-> [a \in {} |-> "-"]]

---------------------------------------------------------------------------
(* Helpers on finite maps *)

EmptyMap == [a \in {} |-> "-"]

Put(f, a, v) == [x \in DOMAIN f \cup {a} |-> IF x = a THEN v ELSE f[x]]

Drop(f, a) == [x \in DOMAIN f \ {a} |-> f[x]]

RemoveAt(s, i) == [j \in 1..(Len(s) - 1) |-> IF j < i THEN s[j] ELSE s[j + 1]]

---------------------------------------------------------------------------
(* The record of the last handler segment *)

\* op: the segment; result: what it returned (or "pending" when it suspended);
\* regs: its globalShortcut.register calls; ret: the bindings it returned
Ev(op, result, regs, ret) ==
    [op |-> op, result |-> result, regs |-> regs, ret |-> ret]

---------------------------------------------------------------------------
(* Electron's globalShortcut *)

\* globalShortcut.register(accelerator, handler) returns false, and changes
\* nothing, when another application holds the accelerator or when this
\* process has already registered it.
GlobalRegisterOk(os, accelerator) ==
    /\ accelerator \notin foreign
    /\ accelerator \notin DOMAIN os

GlobalRegister(os, accelerator, handler) ==
    IF GlobalRegisterOk(os, accelerator) THEN Put(os, accelerator, handler) ELSE os

GlobalUnregister(os, accelerator) == Drop(os, accelerator)

---------------------------------------------------------------------------
(* ShortcutRegistry *)

isProtectedShortcut_noEscape(accelerator) ==
    accelerator \in PROTECTED_SHORTCUTS \ {"Escape"}

isProtectedShortcut(accelerator) == accelerator \in PROTECTED_SHORTCUTS

loadShortcuts_unvalidated(file) ==
    IF file.kind = "json" THEN file.config ELSE DEFAULT_SHORTCUTS

\* A binding the document lacks reads as undefined, which like "" fails the
\* validation; "" stands for both.
loadShortcuts(file) ==
    IF /\ file.kind = "json"
       /\ \A k \in Keys : file.config[k] # ""
    THEN file.config
    ELSE DEFAULT_SHORTCUTS

\* forEach over the Map: unregister each key, then clear the Map
unregisterAllShortcuts_mapOnly(reg, os) == [reg |-> EmptyMap, os |-> os]

unregisterAllShortcuts(reg, os) ==
    [reg |-> EmptyMap,
     os  |-> [a \in DOMAIN os \ DOMAIN reg |-> os[a]]]

registerShortcut_recordsAlways(st, accelerator, handler) ==
    LET os1 == IF accelerator \in DOMAIN st.reg
               THEN GlobalUnregister(st.os, accelerator)
               ELSE st.os
    IN  [reg |-> Put(st.reg, accelerator, handler),
         os  |-> IF GlobalRegisterOk(os1, accelerator)
                 THEN GlobalRegister(os1, accelerator, handler)
                 ELSE os1]

registerShortcut(st, accelerator, handler) ==
    LET os1 == IF accelerator \in DOMAIN st.reg
               THEN GlobalUnregister(st.os, accelerator)
               ELSE st.os
        ok  == GlobalRegisterOk(os1, accelerator)
    IN  IF ok
        THEN [reg |-> Put(st.reg, accelerator, handler),
              os  |-> GlobalRegister(os1, accelerator, handler)]
        ELSE [reg |-> st.reg, os |-> os1]

registerAllShortcuts_unguarded(disabled, config, reg, os) ==
    LET s0 == unregisterAllShortcuts(reg, os)
        s1 == registerShortcut(s0, config["screenshotChat"], "screenshotChat")
        s2 == registerShortcut(s1, config["screenshotExplain"], "screenshotExplain")
    IN  registerShortcut(s2, config["textSelection"], "textSelection")

\* The handler registered for a binding is named by the binding's key.
registerAllShortcuts(disabled, config, reg, os) ==
    IF disabled
    THEN [reg |-> reg, os |-> os]
    ELSE LET s0 == unregisterAllShortcuts(reg, os)
             s1 == registerShortcut(s0, config["screenshotChat"], "screenshotChat")
             s2 == registerShortcut(s1, config["screenshotExplain"], "screenshotExplain")
             s3 == registerShortcut(s2, config["textSelection"], "textSelection")
         IN  s3

\* number of globalShortcut.register calls of one registerAllShortcuts
RegisterAllCalls(disabled) == IF disabled THEN 0 ELSE Len(ShortcutKeys)

isDuplicate_ownKey(config, key, accelerator) ==
    \E i \in 1..Len(ShortcutKeys) :
        /\ ShortcutKeys[i] = key
        /\ config[ShortcutKeys[i]] = accelerator

isDuplicate(config, key, accelerator) ==
    \E i \in 1..Len(ShortcutKeys) :
        /\ ShortcutKeys[i] # key
        /\ config[ShortcutKeys[i]] = accelerator

---------------------------------------------------------------------------
(* Handlers suspended inside saveShortcuts *)

\* op, key, old: the handler and the locals it reads after the await (key,
\* oldAccelerator).  stage: the await it is suspended at.  live: the object
\* handed to saveShortcuts is still the one currentShortcuts refers to;
\* frozen: that object's content once it is not (kept until it is read).  data: the text handed to
\* fs.writeFile.  alone, steady, osBefore, curBefore: history for the
\* properties (no other update or reset overlapped; shortcuts were enabled
\* at the call and neither disable-shortcuts nor enable-shortcuts ran since;
\* the OS table and the bindings at the call).
Suspended(op, key, old) ==
    [op |-> op, key |-> key, old |-> old,
     stage |-> "mkdir", live |-> TRUE, frozen |-> NoConfig, data |-> NoConfig,
     alone |-> inflight = <<>>, steady |-> ~shortcutsDisabled,
     osBefore |-> IF inflight = <<>> THEN osTable ELSE EmptyMap,
     curBefore |-> IF inflight = <<>> THEN currentShortcuts ELSE NoConfig]

Overlapped(s) ==
    [j \in 1..Len(s) |->
        [s[j] EXCEPT !.alone = FALSE, !.osBefore = EmptyMap, !.curBefore = NoConfig]]

\* currentShortcuts is bound to a fresh object: the handlers suspended with
\* the old object keep it as it is now
Detached(s) ==
    [j \in 1..Len(s) |->
        IF s[j].live
        THEN [s[j] EXCEPT !.live = FALSE,
                          !.frozen = IF s[j].stage = "mkdir" THEN currentShortcuts
                                     ELSE NoConfig]
        ELSE s[j]]

Unsteady(s) == [j \in 1..Len(s) |-> [s[j] EXCEPT !.steady = FALSE]]

---------------------------------------------------------------------------
(* The settings UI and its IPC channel *)

\* ipcRenderer.invoke(channel, key, accelerator), on its way to the main
\* process.  current: no edit has been started since the renderer made the call.
Request(op, key, accelerator) ==
    [op |-> op, key |-> key, accelerator |-> accelerator, current |-> TRUE]

\* What the invoke promise of a request resolves with, on its way back
Reply(request, result, config) ==
    [op |-> request.op, key |-> request.key, accelerator |-> request.accelerator,
     result |-> result, config |-> config]

\* The settings UI where it is left out: the handlers are called freely.
\* component: SettingsComponent is "none" (not rendered yet), "mounted", or
\* "unmounted" (the continuations of its calls still run, their state updates
\* have no effect);
\* shortcuts, editingKey, error, success: the state of SettingsComponent;
\* toast: a setTimeout(() => setSuccess(null)) is pending; queue: requests the
\* main process has not handled; calls: the requests of the handlers in
\* inflight, index by index; replies: results the renderer has not received;
\* ack: the main process has handled a disable-shortcuts request made since
\* the edit in progress was started.
NoUi ==
    [tracked |-> FALSE, component |-> "none",
     shortcuts |-> DEFAULT_SHORTCUTS, editingKey |-> "none",
     error |-> "none", success |-> "none", toast |-> FALSE,
     queue |-> <<>>, calls |-> <<>>, replies |-> <<>>, ack |-> FALSE]

\* The window's React tree has not been rendered yet
UiClosed == [NoUi EXCEPT !.tracked = TRUE]

\* The renderer's copy of the protected list
protectedShortcuts == PROTECTED_SHORTCUTS

KeyEvent(metaKey, ctrlKey, altKey, shiftKey, key) ==
    [metaKey |-> metaKey, ctrlKey |-> ctrlKey, altKey |-> altKey,
     shiftKey |-> shiftKey, key |-> key]

\* The keys pressed while a binding is edited: a modifier on its own, a free
\* chord, a protected chord, another binding's chord, an arrow chord, Escape
UiKeyEvents ==
    { KeyEvent(FALSE, FALSE, TRUE, FALSE, "Alt"),
      KeyEvent(FALSE, FALSE, TRUE, FALSE, "k"),
      KeyEvent(TRUE, FALSE, FALSE, FALSE, "c"),
      KeyEvent(FALSE, TRUE, FALSE, TRUE, "E"),
      KeyEvent(FALSE, FALSE, FALSE, FALSE, "Escape") }

toUpperCase(key) ==
    CASE key = "k" -> "K"
      [] key = "c" -> "C"
      [] key = "e" -> "E"
      [] OTHER -> key

KEY_MAP(key) ==
    CASE key = "ArrowUp" -> "Up"
      [] key = "ArrowDown" -> "Down"
      [] key = "ArrowLeft" -> "Left"
      [] key = "ArrowRight" -> "Right"
      [] OTHER -> key

RECURSIVE join(_)
join(parts) ==
    IF Len(parts) = 1 THEN parts[1] ELSE parts[1] \o "+" \o join(Tail(parts))

parseKeyPress(event) ==
    LET modifiers ==
            (IF event.metaKey \/ event.ctrlKey THEN <<"CommandOrControl">> ELSE <<>>)
            \o (IF event.altKey THEN <<"Alt">> ELSE <<>>)
            \o (IF event.shiftKey THEN <<"Shift">> ELSE <<>>)
        key == IF Len(event.key) = 1 THEN toUpperCase(event.key) ELSE KEY_MAP(event.key)
        parts == Append(modifiers, key)
    IN  IF event.key \in {"Meta", "Control", "Alt", "Shift"} THEN Null
        ELSE IF Len(parts) < 2 THEN Null
        ELSE join(parts)

\* What handleKeyDown does with a key event: "cancel", "save", or the error
\* it reports
keyDownOutcome(u, event) ==
    LET accelerator == parseKeyPress(event)
    IN  IF event.key = "Escape" THEN "cancel"
        ELSE IF accelerator = Null THEN "NoModifier"
        ELSE IF accelerator \in protectedShortcuts THEN "ProtectedKey"
        ELSE IF \E k \in Keys : k # u.editingKey /\ u.shortcuts[k] = accelerator
             THEN "Duplicate"
        ELSE "save"

\* What SettingsComponent renders from
View(u) == <<u.editingKey, u.shortcuts, u.error, u.success>>

\* The state updates of one handler are committed: calls are the IPC calls
\* the handler made itself.  When the component re-renders (its state
\* changed, or setShortcuts got a new object), handleSave and cancelEditing
\* are new functions, so the effect of the ShortcutInput being edited is
\* torn down (enableShortcuts) and the effect of the one edited now is run
\* (disableShortcuts).
Commit(before, after, fresh, calls) ==
    LET rendered == fresh \/ View(after) # View(before)
        cleanup == IF rendered /\ before.editingKey # "none"
                   THEN <<Request("enable", "-", "-")>> ELSE <<>>
        effect == IF rendered /\ after.editingKey # "none"
                  THEN <<Request("disable", "-", "-")>> ELSE <<>>
    IN  [after EXCEPT !.queue = @ \o calls \o cleanup \o effect]

\* An edit is started: the requests on their way were made before it
Earlier(s) == [j \in 1..Len(s) |-> [s[j] EXCEPT !.current = FALSE]]

\* update and reset calls the renderer has made and has no result of
Outstanding(u) ==
    Len(u.calls)
    + Len(SelectSeq(u.queue, LAMBDA m : m.op \in {"update", "reset"}))
    + Len(SelectSeq(u.replies, LAMBDA r : r.op \in {"update", "reset"}))

\* ipcMain.handle(channel, ...) is called with the request that arrived first
Requested(op, key, accelerator) ==
    ui.tracked =>
        /\ ui.queue # <<>>
        /\ Head(ui.queue).op = op
        /\ Head(ui.queue).key = key
        /\ Head(ui.queue).accelerator = accelerator

\* the handler returned without a result the renderer uses
Handled ==
    IF ~ui.tracked THEN ui
    ELSE [ui EXCEPT !.queue = Tail(@),
                    !.ack = @ \/ (Head(ui.queue).op = "disable" /\ Head(ui.queue).current)]

\* the handler returned result
Answered(result, config) ==
    IF ~ui.tracked THEN ui
    ELSE [ui EXCEPT !.queue = Tail(@),
                    !.replies = Append(@, Reply(Head(ui.queue), result, config))]

\* the handler is suspended inside saveShortcuts
Accepted ==
    IF ~ui.tracked THEN ui
    ELSE [ui EXCEPT !.queue = Tail(@), !.calls = Append(@, Head(ui.queue))]

\* the suspended handler i returned result
Completed(i, result) ==
    IF ~ui.tracked THEN ui
    ELSE [ui EXCEPT !.calls = RemoveAt(@, i),
                    !.replies = Append(@, Reply(ui.calls[i], result, NoConfig))]

---------------------------------------------------------------------------
(* OverlayController *)

\* The deferred part of showOverlayNearCursor.  flag: the window is marked
\* visible on all workspaces.  shown: the window has been shown (showInactive)
\* since it was constructed.  timers: the setTimeout(..., 0) callbacks not yet
\* run, oldest first.  last: the callback that ran last, whether it passed
\* its guard, and the window it found.  tracked: FALSE in the specifications
\* that leave the deferred callbacks out; there the record never changes.
NoTimer == [kind |-> "-", acted |-> FALSE, window |-> "-", shown |-> FALSE]

Untracked ==
    [tracked |-> FALSE, flag |-> FALSE, shown |-> FALSE, timers |-> <<>>,
     last |-> NoTimer]

Tracked == [Untracked EXCEPT !.tracked = TRUE]

deferredCallbacks_focusOnly == <<"focus">>

\* the two setTimeout calls of showOverlayNearCursor, in their order
deferredCallbacks == <<"clear", "focus">>

\* setVisibleOnAllWorkspaces(true, ...); showInactive(); setTimeout x 2
showDeferred(d) ==
    IF d.tracked
    THEN [d EXCEPT !.flag = TRUE, !.shown = TRUE, !.timers = @ \o deferredCallbacks]
    ELSE d

\* a window that was just constructed, or the place of one that is gone
freshDeferred(d) == [d EXCEPT !.flag = FALSE, !.shown = FALSE]

timerActs_unguarded(ov) == TRUE

\* if (!overlay || overlay.isDestroyed()) return;
timerActs(ov) == ov.overlay # "null"

\* The overlay's part of the state, as the functions below transform it.
\* BrowserWindow.hide() on a visible window is taken to emit 'hide' before
\* it returns, and the close of a window to emit 'closed' at once; the
\* placement and focus calls of showOverlayNearCursor are left out.
Ov ==
    [overlay |-> overlay, escapeRegistered |-> escapeRegistered,
     windows |-> windows, escapeRefused |-> escapeRefused, os |-> osTable,
     call |-> "none", deferred |-> deferred]

SetOv(ov) ==
    /\ overlay' = ov.overlay
    /\ escapeRegistered' = ov.escapeRegistered
    /\ windows' = ov.windows
    /\ escapeRefused' = ov.escapeRefused
    /\ escapeCall' = ov.call
    /\ deferred' = ov.deferred
    /\ osTable' = ov.os

ensureEscapeShortcut_unguarded(ov) ==
    IF GlobalRegisterOk(ov.os, "Escape")
    THEN [ov EXCEPT !.os = GlobalRegister(ov.os, "Escape", "escape"),
                    !.escapeRegistered = TRUE,
                    !.escapeRefused = FALSE,
                    !.call = "register"]
    ELSE [ov EXCEPT !.escapeRefused = TRUE, !.call = "register"]

ensureEscapeShortcut(ov) ==
    IF ov.escapeRegistered THEN ov
    ELSE IF GlobalRegisterOk(ov.os, "Escape")
    THEN [ov EXCEPT !.os = GlobalRegister(ov.os, "Escape", "escape"),
                    !.escapeRegistered = TRUE,
                    !.escapeRefused = FALSE,
                    !.call = "register"]
    ELSE [ov EXCEPT !.escapeRefused = TRUE, !.call = "register"]

releaseEscapeShortcut_keepsFlag(ov) ==
    IF ~ov.escapeRegistered THEN ov
    ELSE [ov EXCEPT !.os = GlobalUnregister(ov.os, "Escape"),
                    !.call = "unregister"]

releaseEscapeShortcut(ov) ==
    IF ~ov.escapeRegistered THEN ov
    ELSE [ov EXCEPT !.os = GlobalUnregister(ov.os, "Escape"),
                    !.escapeRegistered = FALSE,
                    !.call = "unregister"]

\* new BrowserWindow({ show: false, ... })
createOverlay(ov) ==
    [ov EXCEPT !.overlay = "hidden", !.windows = @ + 1,
               !.deferred = freshDeferred(@)]

onHide_keepsEscape(ov) == ov

\* overlay.on('hide')
onHide(ov) == releaseEscapeShortcut(ov)

onClosed_keepsEscape(ov) ==
    [ov EXCEPT !.overlay = "null", !.deferred = freshDeferred(@)]

\* overlay.on('closed')
onClosed(ov) ==
    [releaseEscapeShortcut(ov) EXCEPT !.overlay = "null",
                                      !.deferred = freshDeferred(@)]

hideOverlay_destroys(ov) ==
    IF ov.overlay = "visible"
    THEN onClosed([ov EXCEPT !.windows = @ - 1, !.escapeRefused = FALSE])
    ELSE ov

\* overlay?.hide()
hideOverlay(ov) ==
    IF ov.overlay = "visible"
    THEN onHide([ov EXCEPT !.overlay = "hidden", !.escapeRefused = FALSE])
    ELSE ov

showOverlayNearCursor_fresh(ov) ==
    ensureEscapeShortcut([createOverlay(ov) EXCEPT !.overlay = "visible",
                                                   !.deferred = showDeferred(@)])

showOverlayNearCursor(ov) ==
    LET o1 == IF ov.overlay = "null" THEN createOverlay(ov) ELSE ov
    IN  ensureEscapeShortcut([o1 EXCEPT !.overlay = "visible",
                                        !.deferred = showDeferred(@)])

\* The Escape handler registered by ensureEscapeShortcut runs
EscapePressed ==
    /\ "Escape" \in DOMAIN osTable
    /\ osTable["Escape"] = "escape"
    /\ SetOv(IF overlay # "visible" THEN Ov ELSE hideOverlay(Ov))
    /\ UNCHANGED <<registryVars, ui, ev, captureVars, suspendedFrom, regionVars, lastHandler>>

\* ipcMain.on('overlay-hide')
OverlayHide ==
    /\ phase = "ready"
    /\ SetOv(hideOverlay(releaseEscapeShortcut(Ov)))
    /\ UNCHANGED <<registryVars, ui, ev, captureVars, suspendedFrom, regionVars, lastHandler>>

\* The oldest pending setTimeout callback of showOverlayNearCursor runs
DeferredRuns ==
    /\ deferred.tracked
    /\ deferred.timers # <<>>
    /\ LET kind == Head(deferred.timers)
           acts == timerActs(Ov)
       IN  deferred' = [deferred EXCEPT
                           !.timers = Tail(@),
                           !.flag = IF kind = "clear" /\ acts THEN FALSE ELSE @,
                           !.last = [kind |-> kind, acted |-> acts,
                                     window |-> overlay, shown |-> deferred.shown]]
    /\ UNCHANGED <<overlay, escapeRegistered, windows, escapeRefused, escapeCall, osTable>>
    /\ UNCHANGED <<registryVars, ui, ev, captureVars, suspendedFrom, regionVars, lastHandler>>

\* The overlay window is closed: it is destroyed and 'closed' is emitted
WindowClosed ==
    /\ overlay # "null"
    /\ SetOv([onClosed(Ov) EXCEPT !.windows = @ - 1, !.escapeRefused = FALSE])
    /\ UNCHANGED <<registryVars, ui, ev, captureVars, suspendedFrom, regionVars, lastHandler>>

---------------------------------------------------------------------------
(* Orchestrator: what an action handler does with its capture *)

handlerProceeds_always(result) == TRUE

\* `if (!capture) return`, `if (!selectedText || !selectedText.trim()) return`
handlerProceeds(result) == result \in {"Image", "Text"}

handlerSurface_sendFirst(ov) ==
    [ov |-> showOverlayNearCursor(ov), shown |-> FALSE,
     sent |-> IF ov.overlay # "null" THEN 1 ELSE 0,
     dropped |-> ov.overlay = "null"]

\* showOverlayNearCursor(); overlay?.webContents.send(channel, artifact)
handlerSurface(ov) ==
    LET shownOv == showOverlayNearCursor(ov)
    IN  [ov |-> shownOv, shown |-> TRUE,
         sent |-> IF shownOv.overlay # "null" THEN 1 ELSE 0,
         dropped |-> shownOv.overlay = "null"]

\* The rest of an action handler, from the return of its capture
HandlerReturns(key, result, reads, unlinks) ==
    IF handlerProceeds(result)
    THEN LET h == handlerSurface(Ov)
         IN  /\ SetOv(h.ov)
             /\ lastHandler' = [key |-> key, result |-> result, shown |-> h.shown,
                                 sent |-> h.sent, dropped |-> h.dropped,
                                 reads |-> reads, unlinks |-> unlinks,
                                 reshown |-> overlay = "visible",
                                 built |-> overlay = "null"]
    ELSE /\ UNCHANGED <<overlayVars, osTable>>
         /\ lastHandler' = [key |-> key, result |-> result, shown |-> FALSE,
                             sent |-> 0, dropped |-> FALSE,
                             reads |-> reads, unlinks |-> unlinks,
                             reshown |-> FALSE, built |-> FALSE]

---------------------------------------------------------------------------
(* Initial state: the module has been loaded, app.whenReady is pending *)

BootWith(limit, file, u) ==
    /\ ui = u
    /\ phase = "boot"
    /\ currentShortcuts = DEFAULT_SHORTCUTS
    /\ registeredShortcuts = EmptyMap
    /\ shortcutsDisabled = FALSE
    /\ osTable = EmptyMap
    /\ foreign = {}
    /\ disk = file
    /\ inflight = <<>>
    /\ rpcLimit = limit
    /\ ev = Ev("init", "-", 0, NoConfig)
    /\ clipboard = ""
    /\ selection = ""
    /\ keystrokes = 0
    /\ captures = <<>>
    /\ captureLimit = 1
    /\ lastCapture = NoCapture
    /\ suspendedFrom = NoSnapshot
    /\ overlay = "null"
    /\ escapeRegistered = FALSE
    /\ windows = 0
    /\ escapeRefused = FALSE
    /\ escapeCall = "none"
    /\ deferred = Untracked
    /\ regions = <<>>
    /\ tmpFiles = {}
    /\ now = 0
    /\ lastTmp = -1
    /\ lastHandler = NoHandler

\* The settings UI is left out
BootFrom(limit, file) == BootWith(limit, file, NoUi)

\* shortcuts.json does not exist yet
Boot(limit) == BootFrom(limit, NoFile)

\* The settings UI awaits each call before it makes the next
Init == Boot(1)

\* The renderer makes a call while earlier ones are unanswered
InitOverlap == Boot(MaxInFlight)

---------------------------------------------------------------------------
(* Actions *)

\* app.whenReady().then(...)
AppReady ==
    /\ phase = "boot"
    /\ LET ov == createOverlay(Ov)
           config == loadShortcuts(disk)
           st == registerAllShortcuts(shortcutsDisabled, config,
                                      registeredShortcuts, ov.os)
       IN  /\ currentShortcuts' = config
           /\ registeredShortcuts' = st.reg
           /\ SetOv([ov EXCEPT !.os = st.os])
    /\ phase' = "ready"
    /\ ev' = Ev("ready", "-", RegisterAllCalls(shortcutsDisabled), NoConfig)
    /\ UNCHANGED <<shortcutsDisabled, foreign, disk, inflight, rpcLimit>>
    /\ UNCHANGED ui
    /\ UNCHANGED captureVars
    /\ UNCHANGED <<regionVars, lastHandler>>
    /\ UNCHANGED suspendedFrom

\* ipcMain.handle('settings:get-shortcuts')
GetShortcuts ==
    /\ Requested("get", "-", "-")
    /\ phase = "ready"
    /\ ev' = Ev("get", "-", 0, currentShortcuts)
    /\ UNCHANGED settingsVars
    /\ ui' = Answered("-", currentShortcuts)
    /\ UNCHANGED captureVars
    /\ UNCHANGED handlerVars
    /\ UNCHANGED suspendedFrom

\* What the first segment of 'settings:update-shortcut' decides
updateOutcome_duplicateFirst(key, accelerator) ==
    IF isDuplicate(currentShortcuts, key, accelerator) THEN "Duplicate"
    ELSE IF isProtectedShortcut(accelerator) THEN "Protected"
    ELSE IF ~GlobalRegisterOk(osTable, accelerator) THEN "OSRejected"
    ELSE "pending"

updateOutcome(key, accelerator) ==
    IF isProtectedShortcut(accelerator) THEN "Protected"
    ELSE IF isDuplicate(currentShortcuts, key, accelerator) THEN "Duplicate"
    ELSE IF ~GlobalRegisterOk(osTable, accelerator) THEN "OSRejected"
    ELSE "pending"

\* number of globalShortcut.register calls of that segment
updateTestCalls(key, accelerator) ==
    IF updateOutcome(key, accelerator) \in {"Protected", "Duplicate"} THEN 0 ELSE 1

testRegistration_kept(os, accelerator) == GlobalRegister(os, accelerator, "test")

\* globalShortcut.register(accelerator, testHandler) returned true;
\* globalShortcut.unregister(accelerator)
testRegistration(os, accelerator) ==
    GlobalUnregister(GlobalRegister(os, accelerator, "test"), accelerator)

\* ipcMain.handle('settings:update-shortcut'), up to its return or to the
\* await inside saveShortcuts
UpdateShortcut(key, accelerator) ==
    /\ Requested("update", key, accelerator)
    /\ phase = "ready"
    /\ LET outcome == updateOutcome(key, accelerator)
       IN  /\ ev' = Ev("update", outcome, updateTestCalls(key, accelerator), NoConfig)
           /\ IF outcome = "pending"
              THEN /\ Len(inflight) < rpcLimit
                   /\ osTable' = testRegistration(osTable, accelerator)
                   /\ currentShortcuts' = [currentShortcuts EXCEPT ![key] = accelerator]
                   /\ inflight' = Append(Overlapped(inflight),
                                         Suspended("update", key, currentShortcuts[key]))
              ELSE UNCHANGED <<osTable, currentShortcuts, inflight>>
    /\ UNCHANGED <<phase, registeredShortcuts, shortcutsDisabled, foreign, disk, rpcLimit>>
    /\ ui' = IF updateOutcome(key, accelerator) = "pending" THEN Accepted
           ELSE Answered(updateOutcome(key, accelerator), NoConfig)
    /\ UNCHANGED captureVars
    /\ UNCHANGED handlerVars
    /\ suspendedFrom' = IF updateOutcome(key, accelerator) = "pending"
                        THEN NoSnapshot ELSE suspendedFrom

\* { ...DEFAULT_SHORTCUTS }
resetTarget_keepsText ==
    [DEFAULT_SHORTCUTS EXCEPT !["textSelection"] = currentShortcuts["textSelection"]]

resetTarget == DEFAULT_SHORTCUTS

\* ipcMain.handle('settings:reset-shortcuts'), up to the await inside saveShortcuts
ResetShortcuts ==
    /\ Requested("reset", "-", "-")
    /\ phase = "ready"
    /\ Len(inflight) < rpcLimit
    /\ currentShortcuts' = resetTarget
    /\ inflight' = Append(Overlapped(Detached(inflight)),
                          Suspended("reset", "-", "-"))
    /\ ev' = Ev("reset", "pending", 0, NoConfig)
    /\ UNCHANGED <<phase, registeredShortcuts, shortcutsDisabled, osTable, foreign, disk, rpcLimit>>
    /\ ui' = Accepted
    /\ UNCHANGED captureVars
    /\ UNCHANGED handlerVars
    /\ suspendedFrom' = NoSnapshot

\* saveShortcuts: fs.mkdir resolved; JSON.stringify(config) and fs.writeFile start
SaveMkdirDone(i) ==
    /\ i \in 1..Len(inflight)
    /\ inflight[i].stage = "mkdir"
    /\ inflight' = [inflight EXCEPT
                       ![i].stage = "write",
                       ![i].data = IF inflight[i].live THEN currentShortcuts
                                   ELSE inflight[i].frozen,
                       ![i].frozen = NoConfig]
    /\ ev' = Ev("mkdir", "-", 0, NoConfig)
    /\ UNCHANGED <<phase, currentShortcuts, registeredShortcuts, shortcutsDisabled,
                   osTable, foreign, disk, rpcLimit>>
    /\ UNCHANGED ui
    /\ UNCHANGED captureVars
    /\ UNCHANGED handlerVars
    /\ UNCHANGED suspendedFrom

\* what a rejected fs.mkdir or fs.writeFile leaves in the file
FailedWrite(r) == {disk}

updateRevert_kept(config, key, oldAccelerator) == config

\* the catch block of 'settings:update-shortcut'
updateRevert(config, key, oldAccelerator) == [config EXCEPT ![key] = oldAccelerator]

\* 'settings:update-shortcut': fs.writeFile resolved
UpdateSaved(i) ==
    /\ i \in 1..Len(inflight)
    /\ inflight[i].op = "update"
    /\ inflight[i].stage = "write"
    /\ disk' = FileOf(inflight[i].data)
    /\ LET st == registerAllShortcuts(shortcutsDisabled, currentShortcuts,
                                      registeredShortcuts, osTable)
       IN  /\ registeredShortcuts' = st.reg
           /\ osTable' = st.os
    /\ inflight' = RemoveAt(inflight, i)
    /\ ev' = Ev("updateDone", "ok", RegisterAllCalls(shortcutsDisabled), NoConfig)
    /\ UNCHANGED <<phase, currentShortcuts, shortcutsDisabled, foreign, rpcLimit>>
    /\ ui' = Completed(i, "ok")
    /\ UNCHANGED captureVars
    /\ UNCHANGED handlerVars
    /\ UNCHANGED suspendedFrom

\* 'settings:update-shortcut': saveShortcuts threw
UpdateSaveFailed(i) ==
    /\ i \in 1..Len(inflight)
    /\ inflight[i].op = "update"
    /\ disk' \in FailedWrite(inflight[i])
    /\ LET config == updateRevert(currentShortcuts, inflight[i].key, inflight[i].old)
           st == registerAllShortcuts(shortcutsDisabled, config,
                                      registeredShortcuts, osTable)
       IN  /\ currentShortcuts' = config
           /\ registeredShortcuts' = st.reg
           /\ osTable' = st.os
    /\ inflight' = RemoveAt(inflight, i)
    /\ ev' = Ev("updateDone", "PersistFailed", RegisterAllCalls(shortcutsDisabled), NoConfig)
    /\ UNCHANGED <<phase, shortcutsDisabled, foreign, rpcLimit>>
    /\ ui' = Completed(i, "PersistFailed")
    /\ UNCHANGED captureVars
    /\ UNCHANGED handlerVars
    /\ UNCHANGED suspendedFrom

\* 'settings:reset-shortcuts': fs.writeFile resolved
ResetSaved(i) ==
    /\ i \in 1..Len(inflight)
    /\ inflight[i].op = "reset"
    /\ inflight[i].stage = "write"
    /\ disk' = FileOf(inflight[i].data)
    /\ LET st == registerAllShortcuts(shortcutsDisabled, currentShortcuts,
                                      registeredShortcuts, osTable)
       IN  /\ registeredShortcuts' = st.reg
           /\ osTable' = st.os
    /\ inflight' = RemoveAt(inflight, i)
    /\ ev' = Ev("resetDone", "true", RegisterAllCalls(shortcutsDisabled), NoConfig)
    /\ UNCHANGED <<phase, currentShortcuts, shortcutsDisabled, foreign, rpcLimit>>
    /\ ui' = Completed(i, "true")
    /\ UNCHANGED captureVars
    /\ UNCHANGED handlerVars
    /\ UNCHANGED suspendedFrom

\* 'settings:reset-shortcuts': saveShortcuts threw
ResetSaveFailed(i) ==
    /\ i \in 1..Len(inflight)
    /\ inflight[i].op = "reset"
    /\ disk' \in FailedWrite(inflight[i])
    /\ inflight' = RemoveAt(inflight, i)
    /\ ev' = Ev("resetDone", "false", 0, NoConfig)
    /\ UNCHANGED <<phase, currentShortcuts, registeredShortcuts, shortcutsDisabled,
                   osTable, foreign, rpcLimit>>
    /\ ui' = Completed(i, "false")
    /\ UNCHANGED captureVars
    /\ UNCHANGED handlerVars
    /\ UNCHANGED suspendedFrom

suspendFlag_toggled(disabled) == ~disabled

\* shortcutsDisabled = true
suspendFlag(disabled) == TRUE

\* ipcMain.handle('settings:disable-shortcuts').  The event's result is
\* "again" when the preceding segment was the same handler.
DisableShortcuts ==
    /\ Requested("disable", "-", "-")
    /\ phase = "ready"
    /\ shortcutsDisabled' = suspendFlag(shortcutsDisabled)
    /\ LET st == unregisterAllShortcuts(registeredShortcuts, osTable)
       IN  /\ registeredShortcuts' = st.reg
           /\ osTable' = st.os
    /\ inflight' = Unsteady(inflight)
    /\ ev' = Ev("disable", IF ev.op = "disable" THEN "again" ELSE "-", 0, NoConfig)
    /\ UNCHANGED <<phase, currentShortcuts, foreign, disk, rpcLimit>>
    /\ ui' = Handled
    /\ UNCHANGED captureVars
    /\ UNCHANGED handlerVars
    /\ suspendedFrom' = IF shortcutsDisabled THEN suspendedFrom
                        ELSE IF inflight = <<>> THEN [valid |-> TRUE, os |-> osTable]
                        ELSE NoSnapshot

\* ipcMain.handle('settings:enable-shortcuts')
EnableShortcuts ==
    /\ Requested("enable", "-", "-")
    /\ phase = "ready"
    /\ shortcutsDisabled' = FALSE
    /\ LET st == registerAllShortcuts(FALSE, currentShortcuts,
                                      registeredShortcuts, osTable)
       IN  /\ registeredShortcuts' = st.reg
           /\ osTable' = st.os
    /\ inflight' = Unsteady(inflight)
    /\ ev' = Ev("enable", IF ev.op = "enable" THEN "again" ELSE "-",
                 RegisterAllCalls(FALSE), NoConfig)
    /\ UNCHANGED <<phase, currentShortcuts, foreign, disk, rpcLimit>>
    /\ ui' = Handled
    /\ UNCHANGED captureVars
    /\ UNCHANGED handlerVars
    /\ suspendedFrom' = NoSnapshot

\* The OS delivers a registered accelerator: the registered closure runs
\* (its first statement, the shortcutsDisabled check)
Trigger(accelerator) ==
    /\ accelerator \in DOMAIN osTable
    /\ osTable[accelerator] \in Keys
    /\ ev' = Ev("trigger", IF shortcutsDisabled THEN "ignored" ELSE osTable[accelerator], 0, NoConfig)
    /\ UNCHANGED settingsVars
    /\ UNCHANGED ui
    /\ UNCHANGED captureVars
    /\ UNCHANGED handlerVars
    /\ UNCHANGED suspendedFrom

\* Another application takes or gives up an accelerator this process does not hold
EnvGrab(accelerator) ==
    /\ accelerator \notin foreign
    /\ accelerator \notin DOMAIN osTable
    /\ foreign' = foreign \cup {accelerator}
    /\ ev' = Ev("env", "-", 0, NoConfig)
    /\ UNCHANGED <<phase, currentShortcuts, registeredShortcuts, shortcutsDisabled,
                   osTable, disk, inflight, rpcLimit>>
    /\ UNCHANGED ui
    /\ UNCHANGED captureVars
    /\ UNCHANGED handlerVars
    /\ suspendedFrom' = NoSnapshot

EnvRelease(accelerator) ==
    /\ accelerator \in foreign
    /\ foreign' = foreign \ {accelerator}
    /\ ev' = Ev("env", "-", 0, NoConfig)
    /\ UNCHANGED <<phase, currentShortcuts, registeredShortcuts, shortcutsDisabled,
                   osTable, disk, inflight, rpcLimit>>
    /\ UNCHANGED ui
    /\ UNCHANGED captureVars
    /\ UNCHANGED handlerVars
    /\ suspendedFrom' = NoSnapshot

---------------------------------------------------------------------------
(* CaptureService: region capture (captureRegion) *)

\* path.join(app.getPath('temp'), `icx-${Date.now()}.png`), by its number
tmpPath(clock) == clock

screencaptureCaught_spawnOnly(status) == status = "spawn"

\* the catch around execFileP: the utility exited with an error status
\* ("error") or could not be started ("spawn")
screencaptureCaught(status) == status # "ok"

\* A screenshot handler runs: captureRegion computes its temp path and
\* starts /usr/sbin/screencapture -i -x tmp
RegionStart(accelerator) ==
    /\ accelerator \in DOMAIN osTable
    /\ osTable[accelerator] \in {"screenshotChat", "screenshotExplain"}
    /\ ~shortcutsDisabled
    /\ Len(regions) < MaxRegions
    /\ regions' = Append(regions, [key |-> osTable[accelerator],
                                    tmp |-> tmpPath(now), pc |-> "screencapture"])
    /\ lastTmp' = tmpPath(now)
    /\ UNCHANGED <<tmpFiles, now, overlayVars, lastHandler>>
    /\ UNCHANGED <<settingsVars, ui, ev, captureVars, suspendedFrom>>

\* A millisecond passes
Tick ==
    /\ now < MaxClock
    /\ now' = now + 1
    /\ UNCHANGED <<regions, tmpFiles, lastTmp, overlayVars, lastHandler>>
    /\ UNCHANGED <<settingsVars, ui, ev, captureVars, suspendedFrom>>

\* execFileP settles.  status "ok": the utility exited with status 0, having
\* written the file or not; otherwise the promise rejects and captureRegion
\* returns null.  After "ok" fs.readFile(tmp) starts.
ScreencaptureDone(i, status, written) ==
    /\ i \in 1..Len(regions)
    /\ regions[i].pc = "screencapture"
    /\ written => status = "ok"
    /\ tmpFiles' = IF written THEN tmpFiles \cup {regions[i].tmp} ELSE tmpFiles
    /\ IF screencaptureCaught(status)
       THEN /\ regions' = RemoveAt(regions, i)
            /\ HandlerReturns(regions[i].key, "Cancelled", 0, 0)
       ELSE /\ regions' = [regions EXCEPT ![i].pc = "readFile"]
            /\ UNCHANGED <<overlayVars, osTable, lastHandler>>
    /\ UNCHANGED <<now, lastTmp>>
    /\ UNCHANGED <<registryVars, ui, ev, captureVars, suspendedFrom>>

\* fs.readFile settles.  It can resolve only if the file exists; when it
\* rejects captureRegion returns null; when it resolves fs.unlink(tmp) starts.
ReadFileDone(i, ok) ==
    /\ i \in 1..Len(regions)
    /\ regions[i].pc = "readFile"
    /\ ok => regions[i].tmp \in tmpFiles
    /\ IF ok
       THEN /\ regions' = [regions EXCEPT ![i].pc = "unlink"]
            /\ UNCHANGED <<overlayVars, osTable, lastHandler>>
       ELSE /\ regions' = RemoveAt(regions, i)
            /\ HandlerReturns(regions[i].key, "Failed", 1, 0)
    /\ UNCHANGED <<tmpFiles, now, lastTmp>>
    /\ UNCHANGED <<registryVars, ui, ev, captureVars, suspendedFrom>>

\* fs.unlink settles (a rejection is swallowed): captureRegion returns the image
UnlinkDone(i, ok) ==
    /\ i \in 1..Len(regions)
    /\ regions[i].pc = "unlink"
    /\ ok => regions[i].tmp \in tmpFiles
    /\ tmpFiles' = IF ok THEN tmpFiles \ {regions[i].tmp} ELSE tmpFiles
    /\ regions' = RemoveAt(regions, i)
    /\ HandlerReturns(regions[i].key, "Image", 1, 1)
    /\ UNCHANGED <<now, lastTmp>>
    /\ UNCHANGED <<registryVars, ui, ev, captureVars, suspendedFrom>>

---------------------------------------------------------------------------
(* CaptureService: text-selection capture (captureSelectedText, triggerCopyCommand) *)

didChange_nonEmpty(originalText, capturedText) == capturedText # ""

didChange(originalText, capturedText) ==
    IF originalText = "" THEN capturedText # "" ELSE capturedText # originalText

capturedResult_unchecked(originalText, capturedText) ==
    IF capturedText = "" THEN Null ELSE capturedText

\* lines 175-182: the value captureSelectedText returns after the poll loop
capturedResult(originalText, capturedText) ==
    IF ~didChange(originalText, capturedText) THEN Null
    ELSE IF capturedText = "" THEN Null
    ELSE capturedText

restoredClipboard_asLeft(originalText) == clipboard

\* the finally block: clipboard.writeText(originalText)
restoredClipboard(originalText) == originalText

\* String.prototype.trim on the texts of the model
trim(text) == IF text = " " THEN "" ELSE text

\* how the textSelection handler takes what captureSelectedText returned
textResult(selectedText) ==
    IF selectedText = Null THEN "Failed"
    ELSE IF trim(selectedText) = "" THEN "Blank"
    ELSE "Text"

\* A capture suspended at an await.  pc: "strategy" (a copy strategy's
\* osascript is running), "copyDelay" (the delay(80) of triggerCopyCommand),
\* "poll" (a delay(80) of the poll loop).  strategy: index into copyStrategies.
\* attempt: the loop variable.
\* base, total: history for the properties (the clipboard when the first of
\* the captures now overlapping started; how many of them have started).
CaptureFrame(originalText) ==
    [pc |-> "strategy", strategy |-> 1, originalText |-> originalText,
     attempt |-> 0, reads |-> 0, wrote |-> FALSE, solo |-> captures = <<>>,
     base |-> IF captures = <<>> THEN originalText ELSE captures[1].base,
     total |-> IF captures = <<>> THEN 1 ELSE captures[1].total + 1]

NotSolo(s) == [j \in 1..Len(s) |-> [s[j] EXCEPT !.solo = FALSE, !.total = @ + 1]]

\* captureSelectedText returns: the finally block runs, the frame goes away
CaptureReturns(i, result, attempt, reads, threw) ==
    /\ clipboard' = restoredClipboard(captures[i].originalText)
    /\ captures' = RemoveAt(captures, i)
    /\ lastCapture' = [returned |-> TRUE, result |-> result,
                        originalText |-> captures[i].originalText,
                        reads |-> reads, delays |-> attempt,
                        threw |-> threw, wrote |-> captures[i].wrote,
                        solo |-> captures[i].solo]
    /\ HandlerReturns("textSelection", textResult(result), 0, 0)

\* The textSelection handler runs: captureSelectedText reads the clipboard and
\* triggerCopyCommand starts the first strategy (sendCmdCWithKeyCode)
CaptureTextStart(accelerator) ==
    /\ accelerator \in DOMAIN osTable
    /\ osTable[accelerator] = "textSelection"
    /\ ~shortcutsDisabled
    /\ Len(captures) < captureLimit
    /\ captures' = Append(NotSolo(captures), CaptureFrame(clipboard))
    /\ UNCHANGED <<clipboard, selection, keystrokes, captureLimit, lastCapture>>
    /\ UNCHANGED <<settingsVars, ui, ev, suspendedFrom, handlerVars>>

\* A strategy's osascript exited without error: the chord went to the
\* frontmost application; triggerCopyCommand awaits delay(80)
CopyStrategySucceeds(i) ==
    /\ i \in 1..Len(captures)
    /\ captures[i].pc = "strategy"
    /\ keystrokes' = IF keystrokes < MaxKeystrokes THEN keystrokes + 1 ELSE keystrokes
    /\ captures' = [captures EXCEPT ![i].pc = "copyDelay"]
    /\ UNCHANGED <<clipboard, selection, captureLimit, lastCapture>>
    /\ UNCHANGED <<settingsVars, ui, ev, suspendedFrom, handlerVars>>

copyChainExhausted_first(strategy) == TRUE

\* triggerCopyCommand's for loop: no strategy is left after this one
copyChainExhausted(strategy) == strategy >= CopyStrategies

\* A strategy's osascript failed: the next strategy starts, or after the
\* last one triggerCopyCommand throws and captureSelectedText returns null
CopyStrategyThrows(i) ==
    /\ i \in 1..Len(captures)
    /\ captures[i].pc = "strategy"
    /\ IF ~copyChainExhausted(captures[i].strategy)
       THEN /\ captures' = [captures EXCEPT ![i].strategy = @ + 1]
            /\ UNCHANGED <<clipboard, lastCapture, overlayVars, osTable, lastHandler>>
       ELSE CaptureReturns(i, Null, 0, captures[i].reads, TRUE)
    /\ UNCHANGED <<selection, keystrokes, captureLimit>>
    /\ UNCHANGED <<registryVars, ui, ev, suspendedFrom, regionVars>>

PollFrom_noEarlyStop(i, attempt, reads) ==
    LET capturedText == clipboard
    IN  IF attempt < maxAttempts
        THEN /\ captures' = [captures EXCEPT ![i].pc = "poll",
                                              ![i].attempt = attempt,
                                              ![i].reads = reads]
             /\ UNCHANGED <<clipboard, lastCapture, overlayVars, osTable, lastHandler>>
        ELSE CaptureReturns(i, capturedResult(captures[i].originalText, capturedText),
                            attempt, reads, FALSE)

\* One pass of the poll loop from a fresh clipboard.readText: lines 164-182
PollFrom(i, attempt, reads) ==
    LET capturedText == clipboard
    IN  IF attempt < maxAttempts /\ ~didChange(captures[i].originalText, capturedText)
        THEN /\ captures' = [captures EXCEPT ![i].pc = "poll",
                                              ![i].attempt = attempt,
                                              ![i].reads = reads]
             /\ UNCHANGED <<clipboard, lastCapture, overlayVars, osTable, lastHandler>>
        ELSE CaptureReturns(i, capturedResult(captures[i].originalText, capturedText),
                            attempt, reads, FALSE)

\* The delay(80) of triggerCopyCommand elapsed: first read, loop entry
CopyDelayDone(i) ==
    /\ i \in 1..Len(captures)
    /\ captures[i].pc = "copyDelay"
    /\ PollFrom(i, 0, 1)
    /\ UNCHANGED <<selection, keystrokes, captureLimit>>
    /\ UNCHANGED <<registryVars, ui, ev, suspendedFrom, regionVars>>

\* A delay(80) of the poll loop elapsed: read again, attempt += 1
PollDelayDone(i) ==
    /\ i \in 1..Len(captures)
    /\ captures[i].pc = "poll"
    /\ PollFrom(i, captures[i].attempt + 1, captures[i].reads + 1)
    /\ UNCHANGED <<selection, keystrokes, captureLimit>>
    /\ UNCHANGED <<registryVars, ui, ev, suspendedFrom, regionVars>>

\* The frontmost application acts on a copy chord: it puts its selection on
\* the clipboard, or does nothing when nothing is selected
AppCopies ==
    /\ keystrokes > 0
    /\ keystrokes' = keystrokes - 1
    /\ clipboard' = IF selection # "" THEN selection ELSE clipboard
    /\ captures' = [j \in 1..Len(captures) |->
                       [captures[j] EXCEPT !.wrote = @ \/ (clipboard' # clipboard)]]
    /\ UNCHANGED <<selection, captureLimit, lastCapture>>
    /\ UNCHANGED <<settingsVars, ui, ev, suspendedFrom, handlerVars>>

Next ==
    \/ AppReady
    \/ GetShortcuts
    \/ \E key \in Keys, accelerator \in InputAccelerators : UpdateShortcut(key, accelerator)
    \/ ResetShortcuts
    \/ \E i \in 1..MaxInFlight : SaveMkdirDone(i)
    \/ \E i \in 1..MaxInFlight : UpdateSaved(i)
    \/ \E i \in 1..MaxInFlight : UpdateSaveFailed(i)
    \/ \E i \in 1..MaxInFlight : ResetSaved(i)
    \/ \E i \in 1..MaxInFlight : ResetSaveFailed(i)
    \/ DisableShortcuts
    \/ EnableShortcuts
    \/ \E accelerator \in InputAccelerators : Trigger(accelerator)
    \/ \E accelerator \in ForeignAccelerators : EnvGrab(accelerator)
    \/ \E accelerator \in ForeignAccelerators : EnvRelease(accelerator)

Spec == Init /\ [][Next]_vars

\* What shortcuts.json may hold at startup: nothing, text that does not
\* parse, a document written by an earlier run, a document that lacks a binding
StartupFiles ==
    { NoFile, Malformed,
      FileOf([DEFAULT_SHORTCUTS EXCEPT !["screenshotChat"] = "Alt+K"]),
      FileOf([DEFAULT_SHORTCUTS EXCEPT !["textSelection"] = ""]) }

InitLoad == \E file \in StartupFiles : BootFrom(1, file)

\* A start from any of these documents, followed by settings calls
SpecLoad == InitLoad /\ [][Next]_vars

\* Overlapping settings calls, with no other application taking accelerators
NextOverlap ==
    \/ AppReady
    \/ \E key \in OverlapKeys, accelerator \in OverlapAccelerators :
            UpdateShortcut(key, accelerator)
    \/ ResetShortcuts
    \/ \E i \in 1..MaxInFlight : SaveMkdirDone(i)
    \/ \E i \in 1..MaxInFlight : UpdateSaved(i)
    \/ \E i \in 1..MaxInFlight : UpdateSaveFailed(i)
    \/ \E i \in 1..MaxInFlight : ResetSaved(i)
    \/ \E i \in 1..MaxInFlight : ResetSaveFailed(i)

SpecOverlap == InitOverlap /\ [][NextOverlap]_vars

\* Text captures, one at a time, after a start with the defaults registered;
\* the clipboard and the selection hold any of the model's texts
TextStarted(limit) ==
    /\ phase = "ready"
    /\ foreign = {}
    /\ currentShortcuts = DEFAULT_SHORTCUTS
    /\ LET st == registerAllShortcuts(FALSE, DEFAULT_SHORTCUTS, EmptyMap, EmptyMap)
       IN  /\ registeredShortcuts = st.reg
           /\ osTable = st.os
    /\ shortcutsDisabled = FALSE
    /\ disk = NoFile
    /\ inflight = <<>>
    /\ rpcLimit = 1
    /\ ui = NoUi
    /\ ev = Ev("ready", "-", RegisterAllCalls(FALSE), NoConfig)
    /\ clipboard \in ClipValues
    /\ selection \in ClipValues
    /\ keystrokes = 0
    /\ captures = <<>>
    /\ captureLimit = limit
    /\ lastCapture = NoCapture
    /\ suspendedFrom = NoSnapshot
    /\ overlay = "hidden"
    /\ escapeRegistered = FALSE
    /\ windows = 1
    /\ escapeRefused = FALSE
    /\ escapeCall = "none"
    /\ deferred = Untracked
    /\ regions = <<>>
    /\ tmpFiles = {}
    /\ now = 0
    /\ lastTmp = -1
    /\ lastHandler = NoHandler

InitText == TextStarted(1)

NextText ==
    \/ \E accelerator \in InputAccelerators : CaptureTextStart(accelerator)
    \/ \E i \in 1..MaxCaptures : CopyStrategySucceeds(i)
    \/ \E i \in 1..MaxCaptures : CopyStrategyThrows(i)
    \/ \E i \in 1..MaxCaptures : CopyDelayDone(i)
    \/ \E i \in 1..MaxCaptures : PollDelayDone(i)
    \/ AppCopies

SpecText == InitText /\ [][NextText]_vars

\* Text captures that overlap: the textSelection accelerator is delivered
\* again while a capture is suspended
InitInterleave == TextStarted(MaxCaptures)

\* the accelerator is delivered until a capture has returned
NextInterleave ==
    \/ /\ ~lastCapture.returned
       /\ \E accelerator \in InputAccelerators : CaptureTextStart(accelerator)
    \/ \E i \in 1..MaxCaptures : CopyStrategySucceeds(i)
    \/ \E i \in 1..MaxCaptures : CopyStrategyThrows(i)
    \/ \E i \in 1..MaxCaptures : CopyDelayDone(i)
    \/ \E i \in 1..MaxCaptures : PollDelayDone(i)
    \/ AppCopies

SpecInterleave == InitInterleave /\ [][NextInterleave]_vars

\* Timers fire: a capture waiting in delay(80) resumes
TimersFire ==
    \A i \in 1..MaxCaptures :
        WF_vars(CopyDelayDone(i)) /\ WF_vars(PollDelayDone(i))

SpecTextFair == InitText /\ [][NextText]_vars /\ TimersFire

\* The state after a start with the defaults registered and the overlay
\* window built
StartedWith(held, text, d) ==
    /\ phase = "ready"
    /\ foreign = held
    /\ currentShortcuts = DEFAULT_SHORTCUTS
    /\ LET st == registerAllShortcuts(FALSE, DEFAULT_SHORTCUTS, EmptyMap, EmptyMap)
       IN  /\ registeredShortcuts = st.reg
           /\ osTable = st.os
    /\ shortcutsDisabled = FALSE
    /\ disk = NoFile
    /\ inflight = <<>>
    /\ rpcLimit = 1
    /\ ui = NoUi
    /\ ev = Ev("ready", "-", RegisterAllCalls(FALSE), NoConfig)
    /\ clipboard = ""
    /\ selection = text
    /\ keystrokes = 0
    /\ captures = <<>>
    /\ captureLimit = 1
    /\ lastCapture = NoCapture
    /\ suspendedFrom = NoSnapshot
    /\ overlay = "hidden"
    /\ escapeRegistered = FALSE
    /\ windows = 1
    /\ escapeRefused = FALSE
    /\ escapeCall = "none"
    /\ deferred = d
    /\ regions = <<>>
    /\ tmpFiles = {}
    /\ now = 0
    /\ lastTmp = -1
    /\ lastHandler = NoHandler

Started(held, text) == StartedWith(held, text, Untracked)

\* Region captures, also overlapping ones and ones within one millisecond
InitRegion == Started({}, "")

NextRegion ==
    \/ \E accelerator \in InputAccelerators : RegionStart(accelerator)
    \/ Tick
    \/ \E i \in 1..MaxRegions, status \in {"ok", "error", "spawn"}, written \in BOOLEAN :
            ScreencaptureDone(i, status, written)
    \/ \E i \in 1..MaxRegions, ok \in BOOLEAN : ReadFileDone(i, ok)
    \/ \E i \in 1..MaxRegions, ok \in BOOLEAN : UnlinkDone(i, ok)
    \/ OverlayHide

SpecRegion == InitRegion /\ [][NextRegion]_vars

\* The overlay, shown by region captures and hidden or closed by the user;
\* another application may hold Escape
InitOverlay == \E held \in SUBSET OverlayForeign : Started(held, "")

NextOverlay ==
    \/ \E accelerator \in InputAccelerators : RegionStart(accelerator)
    \/ \E i \in 1..MaxRegions, status \in {"ok", "error", "spawn"}, written \in BOOLEAN :
            ScreencaptureDone(i, status, written)
    \/ \E i \in 1..MaxRegions, ok \in BOOLEAN : ReadFileDone(i, ok)
    \/ \E i \in 1..MaxRegions, ok \in BOOLEAN : UnlinkDone(i, ok)
    \/ EscapePressed
    \/ OverlayHide
    \/ WindowClosed
    \/ \E accelerator \in OverlayForeign : EnvGrab(accelerator)
    \/ \E accelerator \in OverlayForeign : EnvRelease(accelerator)

SpecOverlay == InitOverlay /\ [][NextOverlay]_vars

\* The settings handlers next to the overlay: the start is a ready process
\* whose overlay is hidden, or has been shown with Escape bound
InitEscape ==
    /\ phase = "ready"
    /\ foreign = {}
    /\ currentShortcuts = DEFAULT_SHORTCUTS
    /\ shortcutsDisabled = FALSE
    /\ disk = NoFile
    /\ inflight = <<>>
    /\ rpcLimit = 1
    /\ ui = NoUi
    /\ ev = Ev("ready", "-", RegisterAllCalls(FALSE), NoConfig)
    /\ clipboard = ""
    /\ selection = ""
    /\ keystrokes = 0
    /\ captures = <<>>
    /\ captureLimit = 1
    /\ lastCapture = NoCapture
    /\ suspendedFrom = NoSnapshot
    /\ regions = <<>>
    /\ tmpFiles = {}
    /\ now = 0
    /\ lastTmp = -1
    /\ lastHandler = NoHandler
    /\ windows = 1
    /\ \E shown \in BOOLEAN :
          LET st == registerAllShortcuts(FALSE, DEFAULT_SHORTCUTS, EmptyMap, EmptyMap)
              hidden == [overlay |-> "hidden", escapeRegistered |-> FALSE,
                         windows |-> 1, escapeRefused |-> FALSE, os |-> st.os,
                         call |-> "none", deferred |-> Untracked]
              ov == IF shown THEN showOverlayNearCursor(hidden) ELSE hidden
          IN  /\ registeredShortcuts = st.reg
              /\ osTable = ov.os
              /\ overlay = ov.overlay
              /\ escapeRegistered = ov.escapeRegistered
              /\ escapeRefused = ov.escapeRefused
              /\ escapeCall = ov.call
              /\ deferred = Untracked

\* a segment of 'settings:update-shortcut', 'settings:reset-shortcuts',
\* 'settings:disable-shortcuts' or 'settings:enable-shortcuts'
SettingsStep ==
    \/ \E key \in Keys, accelerator \in InputAccelerators : UpdateShortcut(key, accelerator)
    \/ ResetShortcuts
    \/ \E i \in 1..MaxInFlight : SaveMkdirDone(i)
    \/ \E i \in 1..MaxInFlight : UpdateSaved(i)
    \/ \E i \in 1..MaxInFlight : UpdateSaveFailed(i)
    \/ \E i \in 1..MaxInFlight : ResetSaved(i)
    \/ \E i \in 1..MaxInFlight : ResetSaveFailed(i)
    \/ DisableShortcuts
    \/ EnableShortcuts

NextEscape ==
    \/ SettingsStep
    \/ EscapePressed
    \/ OverlayHide

SpecEscape == InitEscape /\ [][NextEscape]_vars

\* The checks of 'settings:update-shortcut' over binding tables that need not
\* have passed them: the document read at startup is the defaults, or the
\* defaults with a protected accelerator for screenshotChat; the calls are
\* for the other two actions
OrderFiles ==
    { NoFile,
      FileOf([DEFAULT_SHORTCUTS EXCEPT !["screenshotChat"] = "CommandOrControl+C"]) }

OrderKeys == { "screenshotExplain", "textSelection" }

OrderAccelerators == { "CommandOrControl+C", "CommandOrControl+Shift+E", "Alt+K" }

InitOrder == \E file \in OrderFiles : BootFrom(1, file)

NextOrder ==
    \/ AppReady
    \/ \E key \in OrderKeys, accelerator \in OrderAccelerators :
            UpdateShortcut(key, accelerator)
    \/ \E i \in 1..MaxInFlight : SaveMkdirDone(i)
    \/ \E i \in 1..MaxInFlight : UpdateSaved(i)
    \/ \E i \in 1..MaxInFlight : UpdateSaveFailed(i)
    \/ DisableShortcuts
    \/ EnableShortcuts
    \/ \E accelerator \in ForeignAccelerators : EnvGrab(accelerator)
    \/ \E accelerator \in ForeignAccelerators : EnvRelease(accelerator)

SpecOrder == InitOrder /\ [][NextOrder]_vars

\* no capture of either kind is in flight
Idle == captures = <<>> /\ regions = <<>>

\* The overlay with its deferred callbacks: a region capture is triggered
\* when none is in flight and its two callbacks would fit
InitTimers == StartedWith({}, "", Tracked)

NextTimers ==
    \/ /\ Idle
       /\ Len(deferred.timers) + Len(deferredCallbacks) <= MaxTimers
       /\ \E accelerator \in InputAccelerators : RegionStart(accelerator)
    \/ \E i \in 1..MaxRegions, status \in {"ok", "error", "spawn"}, written \in BOOLEAN :
            ScreencaptureDone(i, status, written)
    \/ \E i \in 1..MaxRegions, ok \in BOOLEAN : ReadFileDone(i, ok)
    \/ \E i \in 1..MaxRegions, ok \in BOOLEAN : UnlinkDone(i, ok)
    \/ DeferredRuns
    \/ EscapePressed
    \/ OverlayHide
    \/ WindowClosed

SpecTimers == InitTimers /\ [][NextTimers]_vars


\* The three action handlers and the overlay: the user triggers an action
\* when no capture is in flight
InitCapture == \E text \in ClipValues : Started({}, text)

NextCapture ==
    \/ Idle /\ \E accelerator \in InputAccelerators : CaptureTextStart(accelerator)
    \/ \E i \in 1..MaxCaptures : CopyStrategySucceeds(i)
    \/ \E i \in 1..MaxCaptures : CopyStrategyThrows(i)
    \/ \E i \in 1..MaxCaptures : CopyDelayDone(i)
    \/ \E i \in 1..MaxCaptures : PollDelayDone(i)
    \/ AppCopies
    \/ Idle /\ \E accelerator \in InputAccelerators : RegionStart(accelerator)
    \/ \E i \in 1..MaxRegions, status \in {"ok", "error", "spawn"}, written \in BOOLEAN :
            ScreencaptureDone(i, status, written)
    \/ \E i \in 1..MaxRegions, ok \in BOOLEAN : ReadFileDone(i, ok)
    \/ \E i \in 1..MaxRegions, ok \in BOOLEAN : UnlinkDone(i, ok)
    \/ EscapePressed
    \/ OverlayHide
    \/ WindowClosed

SpecCapture == InitCapture /\ [][NextCapture]_vars

---------------------------------------------------------------------------
(* The settings UI's event handlers, and the specification with the UI *)

\* A step of the renderer: the main process is left alone
Renderer(u) ==
    /\ ui.tracked
    /\ Len(u.queue) <= MaxQueue
    /\ ui' = u
    /\ ev' = Ev("ui", "-", 0, NoConfig)
    /\ UNCHANGED <<settingsVars, captureVars, suspendedFrom, handlerVars>>

\* The window's React tree is rendered: SettingsComponent mounts with its
\* initial state and its mount effect calls getShortcuts
UiMount ==
    /\ phase = "ready"
    /\ ui.component = "none"
    /\ Renderer(Commit(ui, [ui EXCEPT !.component = "mounted"], FALSE,
                       <<Request("get", "-", "-")>>))

\* The tree is unmounted: the effect of a ShortcutInput being edited is torn
\* down, the component's state is gone
UiUnmount ==
    /\ ui.component = "mounted"
    /\ Renderer(Commit(ui,
                       [ui EXCEPT !.component = "unmounted",
                                  !.editingKey = "none",
                                  !.shortcuts = DEFAULT_SHORTCUTS,
                                  !.error = "none", !.success = "none",
                                  !.toast = FALSE, !.ack = FALSE],
                       TRUE, <<>>))

\* startEditing(key): a Change button, enabled while nothing is edited
UiStartEditing(key) ==
    /\ ui.component = "mounted"
    /\ ui.editingKey = "none"
    /\ Renderer(Commit(ui,
                       [ui EXCEPT !.editingKey = key, !.error = "none",
                                  !.success = "none", !.ack = FALSE,
                                  !.queue = Earlier(@)],
                       FALSE, <<>>))

\* cancelEditing()
cancelEditing ==
    Renderer(Commit(ui, [ui EXCEPT !.editingKey = "none", !.error = "none"],
                    FALSE, <<Request("enable", "-", "-")>>))

\* The Cancel button of the ShortcutInput being edited
UiCancelClick ==
    /\ ui.component = "mounted"
    /\ ui.editingKey # "none"
    /\ cancelEditing

\* handleKeyDown(event), up to the await inside handleSave
UiKeyDown(event) ==
    /\ ui.component = "mounted"
    /\ ui.editingKey # "none"
    /\ LET outcome == keyDownOutcome(ui, event)
       IN  CASE outcome = "cancel" -> cancelEditing
             [] outcome = "save" ->
                    /\ Outstanding(ui) < rpcLimit
                    /\ Renderer(Commit(ui, ui, FALSE,
                                       <<Request("update", ui.editingKey,
                                                 parseKeyPress(event))>>))
             [] OTHER -> Renderer(Commit(ui, [ui EXCEPT !.error = outcome], FALSE, <<>>))

\* resetToDefaults(), up to its await: the Reset button, enabled while
\* nothing is edited
UiReset ==
    /\ ui.component = "mounted"
    /\ ui.editingKey = "none"
    /\ Outstanding(ui) < rpcLimit
    /\ Renderer(Commit(ui, ui, FALSE, <<Request("reset", "-", "-")>>))

\* An invoke promise resolves: the continuation of the mount effect, of
\* handleSave or of resetToDefaults
UiReply ==
    /\ ui.tracked
    /\ ui.replies # <<>>
    /\ LET r == Head(ui.replies)
           rest == [ui EXCEPT !.replies = Tail(@)]
           saved == r.op = "update" /\ r.result = "ok"
           after ==
               IF ui.component # "mounted" THEN rest
               ELSE CASE r.op = "get" -> [rest EXCEPT !.shortcuts = r.config]
                      [] saved ->
                            [rest EXCEPT !.shortcuts = [@ EXCEPT ![r.key] = r.accelerator],
                                         !.success = "updated",
                                         !.editingKey = "none",
                                         !.error = "none",
                                         !.toast = TRUE]
                      [] r.op = "update" /\ ~saved -> [rest EXCEPT !.error = r.result]
                      [] r.op = "reset" /\ r.result = "true" ->
                            [rest EXCEPT !.shortcuts = DEFAULT_SHORTCUTS,
                                         !.success = "reset",
                                         !.toast = TRUE]
                      [] OTHER -> rest
       IN  Renderer(Commit(ui, after, ui.component = "mounted" /\ (r.op = "get" \/ saved),
                           IF saved THEN <<Request("enable", "-", "-")>>
                           ELSE <<>>))

\* setTimeout(() => setSuccess(null), 2000) fires
UiToast ==
    /\ ui.toast
    /\ Renderer(Commit(ui, [ui EXCEPT !.success = "none", !.toast = FALSE], FALSE, <<>>))

\* The accelerators the key events stand for
UiAccelerators == { parseKeyPress(event) : event \in UiKeyEvents } \ { Null }

\* The bindings the Change button is pressed for
UiKeys == { "screenshotChat", "screenshotExplain" }

\* The renderer has one update or reset unanswered at a time
InitUi == BootWith(1, NoFile, UiClosed)

NextUi ==
    \/ AppReady
    \/ UiMount
    \/ UiUnmount
    \/ \E key \in UiKeys : UiStartEditing(key)
    \/ UiCancelClick
    \/ \E event \in UiKeyEvents : UiKeyDown(event)
    \/ UiReset
    \/ UiReply
    \/ UiToast
    \/ GetShortcuts
    \/ \E key \in UiKeys, accelerator \in UiAccelerators : UpdateShortcut(key, accelerator)
    \/ ResetShortcuts
    \/ SaveMkdirDone(1)
    \/ UpdateSaved(1)
    \/ UpdateSaveFailed(1)
    \/ ResetSaved(1)
    \/ ResetSaveFailed(1)
    \/ DisableShortcuts
    \/ EnableShortcuts

SpecUi == InitUi /\ [][NextUi]_vars

---------------------------------------------------------------------------
(* Properties of the shortcut registry *)

Distinct(config) ==
    \A x \in Keys, y \in Keys : x # y => config[x] # config[y]

Unprotected(config) ==
    \A x \in Keys : config[x] \notin PROTECTED_SHORTCUTS

\* C1: in every reachable state, also with calls that overlap at the await
\* inside saveShortcuts and with failing writes, the three in-memory
\* accelerators are pairwise distinct and none of them is protected.
C1_BindingsDistinctUnprotected ==
    /\ Distinct(currentShortcuts)
    /\ Unprotected(currentShortcuts)

\* C2: updateBinding(action, a) with a protected accelerator a returns the
\* Protected error, makes no OS registration call, starts no write, and
\* leaves the bindings and every other part of the registry as they were.
C2_ProtectedRejected ==
    [][\A key \in Keys, a \in InputAccelerators \cap PROTECTED_SHORTCUTS :
          UpdateShortcut(key, a) =>
              /\ ev'.result = "Protected"
              /\ ev'.regs = 0
              /\ UNCHANGED settingsVars]_vars

C2_Witness ==
    /\ ev.op = "update"
    /\ ev.result = "Protected"
    /\ currentShortcuts # DEFAULT_SHORTCUTS

\* C3: for distinct actions x and y, updateBinding(y, k) with k the current
\* in-memory accelerator of x returns the Duplicate error and leaves the
\* bindings (and the rest of the registry) unchanged.
C3_DuplicateRejected ==
    [][\A y \in Keys, x \in Keys :
          (x # y /\ UpdateShortcut(y, currentShortcuts[x])) =>
              /\ ev'.result = "Duplicate"
              /\ UNCHANGED settingsVars]_vars

C3_Witness ==
    /\ ev.op = "update"
    /\ ev.result = "Duplicate"
    /\ currentShortcuts # DEFAULT_SHORTCUTS

\* C4: updateBinding(x, k) with k already the accelerator of x is not
\* rejected (neither as Duplicate nor otherwise) and leaves the bindings as
\* they were, with shortcuts enabled or suspended.
C4_OwnAcceleratorAccepted ==
    [][\A x \in Keys :
          UpdateShortcut(x, currentShortcuts[x]) =>
              /\ ev'.result = "pending"
              /\ currentShortcuts' = currentShortcuts]_vars

\* C5: when the write of updateBinding(x, k') fails the call returns
\* PersistFailed, and the bindings are then those of before the call: x has
\* its former accelerator and the other two are unchanged.
C5_PersistFailedRestores ==
    [][\A i \in 1..MaxInFlight :
          UpdateSaveFailed(i) =>
              /\ ev'.result = "PersistFailed"
              /\ currentShortcuts'[inflight[i].key] = inflight[i].old
              /\ currentShortcuts' = inflight[i].curBefore]_vars

C5_Witness ==
    /\ ev.op = "updateDone"
    /\ ev.result = "PersistFailed"
    /\ currentShortcuts # DEFAULT_SHORTCUTS

\* every action handler the OS table held is still held under the same
\* accelerator (so a press of the accelerator runs that handler)
StillRegistered(before, after) ==
    \A a \in DOMAIN before :
        before[a] \in Keys => (a \in DOMAIN after /\ after[a] = before[a])

\* C6: an updateBinding call that returns an error while shortcuts are
\* enabled leaves every action that was registered before the call
\* registered under the same accelerator with the same handler.  (Stated for
\* the calls that no other update or reset overlaps and during which
\* shortcuts are neither suspended nor resumed.)
C6_ErrorKeepsRegistrations ==
    [][/\ \A key \in Keys, a \in InputAccelerators :
            (/\ UpdateShortcut(key, a)
             /\ ev'.result # "pending"
             /\ ~shortcutsDisabled) => StillRegistered(osTable, osTable')
       /\ \A i \in 1..MaxInFlight :
            (/\ UpdateSaveFailed(i)
             /\ inflight[i].alone
             /\ inflight[i].steady) => StillRegistered(inflight[i].osBefore, osTable')]_vars

\* C10: getBindings after a completed resetToDefaults returns the three
\* defaults, whatever the bindings were and whether or not the write succeeded.
C10_ResetThenGetIsDefaults ==
    [][(ev.op = "resetDone" /\ ev'.op = "get") => ev'.ret = DEFAULT_SHORTCUTS]_vars

C10_Witness ==
    /\ ev.op = "resetDone"
    /\ ev.result = "false"
    /\ \E a \in DOMAIN registeredShortcuts :
          a \notin {DEFAULT_SHORTCUTS[k] : k \in Keys}

\* the action handlers an OS table holds
ActionsOf(os) == [a \in {x \in DOMAIN os : os[x] \in Keys} |-> os[a]]

\* C11: enable-shortcuts after disable-shortcuts, when no update or reset
\* call changed a binding in between (and no other application took or gave
\* up an accelerator), registers exactly the accelerators that were
\* registered when disable-shortcuts ran, each with the action handler it
\* had, and leaves the handlers live (shortcutsDisabled is false), so that a
\* press of each of these accelerators runs its action's handler.
C11_SuspendResumeRestores ==
    [][(EnableShortcuts /\ suspendedFrom.valid) =>
          /\ ActionsOf(osTable') = ActionsOf(suspendedFrom.os)
          /\ ~shortcutsDisabled']_vars

\* C12: while shortcutsDisabled is set no action handler is registered with
\* the OS, also after update-shortcut and reset-shortcuts calls made in the
\* meantime, and an action handler that runs while the flag is set returns
\* at its first statement.
C12_NothingRegisteredWhileDisabled ==
    /\ shortcutsDisabled => ActionsOf(osTable) = EmptyMap
    /\ shortcutsDisabled => registeredShortcuts = EmptyMap
    /\ (ev.op = "trigger" /\ shortcutsDisabled) => ev.result = "ignored"

C12_Witness ==
    /\ shortcutsDisabled
    /\ ev.op = "updateDone"
    /\ ev.result = "ok"
    /\ currentShortcuts # DEFAULT_SHORTCUTS
    /\ ActionsOf(osTable) = EmptyMap

---------------------------------------------------------------------------
(* Properties of the text-selection capture *)

\* the step in which captureSelectedText call i returns
Returns(i) ==
    /\ \/ CopyStrategyThrows(i)
       \/ CopyDelayDone(i)
       \/ PollDelayDone(i)
    /\ Len(captures') < Len(captures)

\* C7: when a text-selection capture returns, the clipboard holds the text
\* the capture read at its start, whether it captured a text, saw no change,
\* or both copy strategies threw.
C7_ClipboardRestored ==
    [][\A i \in 1..MaxCaptures :
          Returns(i) => clipboard' = captures[i].originalText]_vars

C7_Witness ==
    /\ lastCapture.returned
    /\ lastCapture.result = "hello"
    /\ lastCapture.originalText = "orig"
    /\ clipboard = "orig"

\* C8: a capture that starts with a non-empty clipboard text orig, whose copy
\* command was sent, and during which the clipboard is never changed, makes
\* all maxAttempts delays (maxAttempts + 1 reads), returns null, and leaves
\* orig on the clipboard; and once it polls it does return.
C8_NoChangeFails ==
    /\ [][\A i \in 1..MaxCaptures :
            (/\ Returns(i)
             /\ captures[i].originalText # ""
             /\ ~captures[i].wrote
             /\ ~lastCapture'.threw) =>
                /\ lastCapture'.result = Null
                /\ lastCapture'.delays = maxAttempts
                /\ lastCapture'.reads = maxAttempts + 1
                /\ clipboard' = captures[i].originalText]_vars
    /\ \A i \in 1..MaxCaptures :
          (Len(captures) >= i /\ captures[i].pc \in {"copyDelay", "poll"})
              ~> (Len(captures) < i)

C8_Witness ==
    /\ lastCapture.returned
    /\ lastCapture.originalText = "orig"
    /\ ~lastCapture.wrote
    /\ ~lastCapture.threw
    /\ lastCapture.result = Null
    /\ lastCapture.delays = maxAttempts
    /\ clipboard = "orig"

\* C9: a capture that starts with an empty clipboard and during which the
\* copy puts a non-empty text v on it returns v and leaves the clipboard
\* empty; and whatever text a capture returns is non-empty and differs from
\* the text it read at its start.
C9_CapturedText ==
    [][\A i \in 1..MaxCaptures :
          Returns(i) =>
            /\ (/\ captures[i].originalText = ""
                /\ captures[i].solo
                /\ captures[i].wrote
                /\ ~lastCapture'.threw) =>
                    /\ lastCapture'.result = selection
                    /\ clipboard' = ""
            /\ lastCapture'.result # Null =>
                    /\ lastCapture'.result # ""
                    /\ lastCapture'.result # captures[i].originalText]_vars

C9_Witness ==
    /\ lastCapture.returned
    /\ lastCapture.originalText = ""
    /\ lastCapture.result = "hello"
    /\ clipboard = ""

---------------------------------------------------------------------------
(* Properties of the overlay, the region capture and the action handlers *)

EscapeBound == "Escape" \in DOMAIN osTable /\ osTable["Escape"] = "escape"

\* C13: in every state in which the process holds the Escape registration
\* (or escapeRegistered is set) the overlay window exists and is visible,
\* whichever way the overlay left the visible state before: overlay-hide,
\* the Escape handler, or the close of the window.
C13_EscapeOnlyWhileVisible ==
    ("Escape" \in DOMAIN osTable \/ escapeRegistered) =>
        (overlay = "visible" /\ windows = 1)

C13_Witness ==
    /\ lastHandler.result = "Image"
    /\ overlay = "hidden"
    /\ "Escape" \notin DOMAIN osTable
    /\ "Escape" \notin foreign

\* C14 as stated: whenever the overlay is visible the Escape accelerator is
\* bound.
C14_VisibleImpliesEscape == overlay = "visible" => EscapeBound

\* C14: whenever the overlay is visible and the last registration of Escape
\* was not refused by the OS, the Escape accelerator is bound to the
\* overlay's handler; and a press of Escape while the overlay is visible
\* hides the overlay and unregisters Escape.
C14_EscapeBoundWhileVisible ==
    [][/\ (overlay' = "visible" /\ ~escapeRefused') =>
            ("Escape" \in DOMAIN osTable' /\ osTable'["Escape"] = "escape")
       /\ (EscapePressed /\ overlay = "visible") =>
            /\ overlay' = "hidden"
            /\ "Escape" \notin DOMAIN osTable'
            /\ ~escapeRegistered']_vars

C14_Witness ==
    /\ overlay = "visible"
    /\ EscapeBound
    /\ ~escapeRefused
    /\ lastHandler.result = "Image"
    /\ lastHandler.built

\* C15: at most one overlay window exists in every state, and a handler
\* that shows the overlay while the window exists builds no window: it
\* shows the one there is.
C15_OneOverlayWindow ==
    [][/\ windows' <= 1
       /\ (overlay' = "null") = (windows' = 0)
       /\ (lastHandler' # lastHandler /\ lastHandler'.shown /\ overlay # "null") =>
            (windows' = windows /\ overlay' = "visible")]_vars

C15_Witness ==
    /\ lastHandler.reshown
    /\ lastHandler.key = "screenshotExplain"
    /\ windows = 1
    /\ overlay = "visible"

\* a step of an action handler, and the step in which it returns
HandlerStep == captures' # captures \/ regions' # regions

HandlerReturnStep == Len(captures') < Len(captures) \/ Len(regions') < Len(regions)

\* C16: a handler whose capture gave no artifact (screencapture failed, the
\* image could not be read, captureSelectedText returned null or a blank
\* text) sends nothing and does not call showOverlayNearCursor, and no step
\* of it changes the overlay, the window, or the Escape registration.
C16_NoArtifactNoOverlay ==
    [][/\ (HandlerReturnStep /\ lastHandler'.result \in {"Cancelled", "Failed", "Blank"}) =>
            /\ lastHandler'.key \in Keys
            /\ lastHandler'.sent = 0
            /\ ~lastHandler'.shown
            /\ UNCHANGED <<overlayVars, osTable>>
       /\ (HandlerStep /\ ~HandlerReturnStep) => UNCHANGED <<overlayVars, osTable>>]_vars

C16_Witness ==
    /\ lastHandler.key = "screenshotExplain"
    /\ lastHandler.result = "Cancelled"
    /\ overlay = "visible"
    /\ lastCapture.returned
    /\ lastCapture.result = Null

\* C17: a handler whose capture gave an image or a non-blank text calls
\* showOverlayNearCursor and then sends the artifact; the window exists at
\* the send, also when it had been closed before, so the send is not
\* dropped; and a handler run sends at most one artifact.
C17_ShowThenSend ==
    [][HandlerReturnStep =>
          /\ lastHandler'.sent <= 1
          /\ ~lastHandler'.dropped
          /\ lastHandler'.result \in {"Image", "Text"} =>
                /\ lastHandler'.shown
                /\ lastHandler'.sent = 1
                /\ overlay' = "visible"]_vars

C17_Witness ==
    /\ lastHandler.result = "Text"
    /\ lastHandler.built
    /\ lastHandler.sent = 1
    /\ overlay = "visible"

\* C18: when screencapture exits with an error status or cannot be started,
\* captureRegion returns null in the same step: the handler returns with
\* result Cancelled, fs.readFile is not called, nothing is sent, and the
\* overlay is left as it was.
C18_UtilityFailureCancels ==
    [][\A i \in 1..MaxRegions, status \in {"error", "spawn"} :
          ScreencaptureDone(i, status, FALSE) =>
              /\ Len(regions') < Len(regions)
              /\ lastHandler'.result = "Cancelled"
              /\ lastHandler'.reads = 0
              /\ lastHandler'.sent = 0
              /\ UNCHANGED <<overlayVars, osTable, tmpFiles>>]_vars

C18_Witness ==
    /\ lastHandler.key = "screenshotChat"
    /\ lastHandler.result = "Cancelled"
    /\ lastHandler.reads = 0
    /\ regions = <<>>

\* C19: when screencapture reported success and the temp file exists, the
\* capture goes on to fs.unlink before it returns; and the capture returns
\* the image whether fs.unlink resolves or rejects.
C19_TempFileDeleted ==
    [][/\ \A i \in 1..MaxRegions :
            (/\ ReadFileDone(i, TRUE) \/ ReadFileDone(i, FALSE)
             /\ regions[i].tmp \in tmpFiles) =>
                /\ Len(regions') = Len(regions)
                /\ regions'[i].pc = "unlink"
       /\ \A i \in 1..MaxRegions, ok \in BOOLEAN :
            UnlinkDone(i, ok) =>
                /\ lastHandler'.result = "Image"
                /\ lastHandler'.unlinks = 1]_vars

\* C20: the temp path a captureRegion call computes differs from the path
\* of every earlier call (the clock does not go back, so it is enough that
\* it differs from the path computed last).
C20_DistinctTempPaths ==
    [][\A accelerator \in InputAccelerators :
          RegionStart(accelerator) => tmpPath(now) # lastTmp]_vars

---------------------------------------------------------------------------
(* Properties of persistence *)

\* C21: at startup the bindings become those of shortcuts.json when the
\* document parses and holds all three bindings, and the defaults when the
\* file is missing, does not parse, or lacks a binding; in each case the
\* startup completes (the registration pass runs, nothing is thrown).
C21_StartupBindings ==
    [][AppReady =>
          /\ (disk.kind \in {"none", "malformed"}) =>
                currentShortcuts' = DEFAULT_SHORTCUTS
          /\ (disk.kind = "json" /\ \E k \in Keys : disk.config[k] = "") =>
                currentShortcuts' = DEFAULT_SHORTCUTS
          /\ (disk.kind = "json" /\ \A k \in Keys : disk.config[k] # "") =>
                currentShortcuts' = disk.config
          /\ phase' = "ready"
          /\ ev'.op = "ready"]_vars

C21_Witness ==
    /\ ev.op = "ready"
    /\ disk.kind = "json"
    /\ currentShortcuts = disk.config
    /\ currentShortcuts # DEFAULT_SHORTCUTS

\* C22: whenever 'settings:update-shortcut' returns success, the file holds the
\* bindings that are in memory at that moment, also when other update calls
\* are suspended at the persistence await
C22_OkMeansPersisted ==
    [][\A i \in 1..Len(inflight) :
          (/\ UpdateSaved(i)
           /\ inflight[i].live
           /\ \A j \in 1..Len(inflight) : inflight[j].op = "update")
          => disk' = FileOf(currentShortcuts')]_vars

---------------------------------------------------------------------------
(* Properties of the copy chain *)

\* C23: the second copy strategy is invoked exactly when the first one threw;
\* the chain fails only when both threw, and then captureSelectedText polls
\* nothing and the capture's result is Failed
C23_CopyChain ==
    [][\A i \in 1..Len(captures) :
          /\ (CopyStrategyThrows(i) /\ captures[i].strategy = 1)
                => /\ Len(captures') = Len(captures)
                   /\ captures'[i].pc = "strategy"
                   /\ captures'[i].strategy = 2
          /\ CopyStrategySucceeds(i)
                => /\ captures'[i].pc = "copyDelay"
                   /\ captures'[i].strategy = captures[i].strategy
          /\ (Len(captures') = Len(captures) /\ captures'[i].strategy # captures[i].strategy)
                => CopyStrategyThrows(i) /\ captures[i].strategy = 1
          /\ (CopyStrategyThrows(i) /\ captures[i].strategy = 2)
                => /\ Len(captures') < Len(captures)
                   /\ lastCapture'.threw
                   /\ lastCapture'.reads = 0
                   /\ lastCapture'.delays = 0
                   /\ lastCapture'.result = Null
                   /\ lastHandler'.result = "Failed"
          /\ (Len(captures') < Len(captures) /\ lastCapture'.threw)
                => captures[i].pc = "strategy" /\ captures[i].strategy = 2]_vars

\* both strategies threw and the capture returned Failed without a read
C23_Witness ==
    /\ lastCapture.returned
    /\ lastCapture.threw
    /\ lastCapture.reads = 0
    /\ lastHandler.key = "textSelection"
    /\ lastHandler.result = "Failed"
    /\ captures = <<>>

---------------------------------------------------------------------------
(* Properties of suspend and resume *)

\* C24: 'settings:disable-shortcuts' called twice leaves the flag and the OS
\* table as one call left them, and 'settings:enable-shortcuts' called twice
\* leaves the flag and the registered accelerators with their handlers as
\* one call left them
C24_SuspendResumeIdempotent ==
    [][/\ (DisableShortcuts /\ ev.op = "disable")
            => /\ shortcutsDisabled' = shortcutsDisabled
               /\ osTable' = osTable
               /\ registeredShortcuts' = registeredShortcuts
       /\ (EnableShortcuts /\ ev.op = "enable")
            => /\ shortcutsDisabled' = shortcutsDisabled
               /\ osTable' = osTable
               /\ registeredShortcuts' = registeredShortcuts]_vars

\* a second enable in a row, with a changed binding registered
C24_Witness ==
    /\ ev.op = "enable"
    /\ ev.result = "again"
    /\ ~shortcutsDisabled
    /\ currentShortcuts # DEFAULT_SHORTCUTS
    /\ \A k \in Keys : /\ currentShortcuts[k] \in DOMAIN osTable
                       /\ osTable[currentShortcuts[k]] = k

---------------------------------------------------------------------------
(* Properties of the Escape binding *)

\* C25: ensureEscapeShortcut while Escape is bound makes no globalShortcut
\* call and changes nothing; releaseEscapeShortcut while Escape is not bound
\* makes no globalShortcut call and changes nothing; escapeRegistered is
\* true exactly when this process holds the Escape registration
C25_EscapeGuards ==
    /\ [](escapeRegistered <=> "Escape" \in DOMAIN osTable)
    /\ [][/\ (HandlerReturnStep /\ lastHandler'.shown /\ escapeRegistered)
               => /\ escapeCall' = "none"
                  /\ escapeRegistered'
                  /\ escapeRefused' = escapeRefused
                  /\ osTable' = osTable
          /\ ((OverlayHide \/ WindowClosed) /\ ~escapeRegistered)
               => /\ escapeCall' = "none"
                  /\ ~escapeRegistered'
                  /\ osTable' = osTable]_vars

\* the overlay was shown again while Escape was bound: no call was made
C25_Witness ==
    /\ overlay = "visible"
    /\ escapeRegistered
    /\ escapeCall = "none"
    /\ lastHandler.shown
    /\ lastHandler.reshown

\* C26: the settings handlers (disable, enable, update, reset) never register
\* or unregister Escape: after each of their segments the Escape registration
\* and escapeRegistered are what they were before it
C26_SettingsLeaveEscape ==
    [][SettingsStep
          => /\ escapeRegistered' = escapeRegistered
             /\ ("Escape" \in DOMAIN osTable') = ("Escape" \in DOMAIN osTable)
             /\ EscapeBound' = EscapeBound]_vars

\* a binding was changed and registered while Escape stayed bound
C26_Witness ==
    /\ ev.op = "updateDone"
    /\ ev.result = "ok"
    /\ ev.regs = Len(ShortcutKeys)
    /\ currentShortcuts # DEFAULT_SHORTCUTS
    /\ overlay = "visible"
    /\ escapeRegistered
    /\ EscapeBound

\* C27: 'overlay-hide' takes a visible overlay to hidden and unbinds Escape
\* without destroying the window; a later showOverlayNearCursor shows that
\* window again and constructs none
C27_HideKeepsWindow ==
    [][/\ (OverlayHide /\ overlay = "visible")
            => /\ overlay' = "hidden"
               /\ ~escapeRegistered'
               /\ "Escape" \notin DOMAIN osTable'
               /\ windows' = windows
       /\ (HandlerReturnStep /\ lastHandler'.shown /\ overlay = "hidden")
            => /\ overlay' = "visible"
               /\ windows' = windows
               /\ ~lastHandler'.built]_vars

\* the overlay was shown, then hidden with Escape given up, and its window is
\* still there
C27_Witness ==
    /\ overlay = "hidden"
    /\ lastHandler.shown
    /\ escapeCall = "unregister"
    /\ ~escapeRegistered
    /\ windows = 1

---------------------------------------------------------------------------
(* Properties of the registration pass *)

\* the accelerators of a binding table
Bound(config) == { config[k] : k \in Keys }

\* C28: after a successful update or reset made while shortcuts are enabled,
\* no other application holding a binding, the accelerators registered apart
\* from Escape are exactly the current bindings, each with its key's
\* handler; an updated key's previous accelerator is no longer registered
C28_RegisteredAreBindings ==
    [][\A i \in 1..Len(inflight) :
          (/\ UpdateSaved(i) \/ ResetSaved(i)
           /\ ~shortcutsDisabled
           /\ foreign \cap Bound(currentShortcuts) = {})
          => /\ DOMAIN osTable' \ {"Escape"} = Bound(currentShortcuts')
             /\ DOMAIN registeredShortcuts' = Bound(currentShortcuts')
             /\ \A k \in Keys : osTable'[currentShortcuts'[k]] = k
             /\ (inflight[i].op = "update" /\ inflight[i].old # currentShortcuts'[inflight[i].key])
                   => inflight[i].old \notin DOMAIN osTable']_vars

\* an update succeeded while enabled: the new accelerator is registered for
\* its key and the default it replaced is not registered
C28_Witness ==
    /\ ev.op = "updateDone"
    /\ ev.result = "ok"
    /\ ~shortcutsDisabled
    /\ currentShortcuts["screenshotChat"] = "Alt+K"
    /\ osTable["Alt+K"] = "screenshotChat"
    /\ DEFAULT_SHORTCUTS["screenshotChat"] \notin DOMAIN osTable
    /\ "Escape" \in DOMAIN osTable

\* a step in which registerAllShortcuts runs
RegistrationPass ==
    \/ AppReady
    \/ EnableShortcuts
    \/ \E i \in 1..Len(inflight) :
          UpdateSaved(i) \/ UpdateSaveFailed(i) \/ ResetSaved(i)

\* some accelerator in the table fires the handler of key
Fires(os, key) == \E a \in DOMAIN os : os[a] = key

\* C29: when another application holds one action's accelerator during a
\* registration pass, the other two actions are registered and fire their
\* handlers, the rejected action is not recorded and nothing fires its
\* handler, and it is registered again only by another registration pass
C29_RejectedActionInert ==
    [][/\ (RegistrationPass /\ ~shortcutsDisabled')
            => \A x \in Keys :
                  (/\ currentShortcuts'[x] \in foreign
                   /\ \A k \in Keys \ {x} : currentShortcuts'[k] \notin foreign)
                  => /\ \A k \in Keys \ {x} :
                           /\ currentShortcuts'[k] \in DOMAIN registeredShortcuts'
                           /\ currentShortcuts'[k] \in DOMAIN osTable'
                           /\ osTable'[currentShortcuts'[k]] = k
                     /\ currentShortcuts'[x] \notin DOMAIN registeredShortcuts'
                     /\ ~Fires(osTable', x)
       /\ \A x \in Keys :
             (Fires(osTable', x) /\ ~Fires(osTable, x)) => RegistrationPass]_vars

\* a pass ran while another application held the accelerator bound to
\* screenshotChat: that action is inert, the other two are registered
C29_Witness ==
    /\ ev.op = "updateDone"
    /\ ev.regs = Len(ShortcutKeys)
    /\ ~shortcutsDisabled
    /\ currentShortcuts["screenshotChat"] \in foreign
    /\ ~Fires(osTable, "screenshotChat")
    /\ Fires(osTable, "screenshotExplain")
    /\ Fires(osTable, "textSelection")

---------------------------------------------------------------------------
(* Properties of overlapping text captures *)

\* C30: when two text-selection captures overlapped and both have returned,
\* the clipboard holds what it held before the first of them started
C30_InterleavedRestore ==
    [][\A i \in 1..Len(captures) :
          (Returns(i) /\ Len(captures) = 1 /\ captures[i].total = 2)
          => clipboard' = captures[i].base]_vars

---------------------------------------------------------------------------
(* Properties of 'settings:update-shortcut' *)

\* C31: the test registration of 'settings:update-shortcut' is released
\* before the handler goes on: no accelerator this process holds is bound to
\* the test handler; each is bound to an action's handler or to Escape's
C31_NoTestHandlerLeft ==
    \A a \in DOMAIN osTable : osTable[a] \in Keys \cup {"escape"}

\* an update passed its test registration and is waiting for the write; the
\* accelerator it tested is not in the table
C31_Witness ==
    /\ ev.op = "update"
    /\ ev.result = "pending"
    /\ ev.regs = 1
    /\ inflight # <<>>
    /\ currentShortcuts["screenshotChat"] = "Alt+K"
    /\ "Alt+K" \notin DOMAIN osTable
    /\ "Escape" \in DOMAIN osTable

\* key's accelerator would equal another action's
TakenByOther(key, accelerator) ==
    \E x \in Keys \ {key} : currentShortcuts[x] = accelerator

\* C32: 'settings:update-shortcut' checks Protected, then Duplicate, then the
\* OS, then the write, and returns the first failure: a protected accelerator
\* that another action has yields Protected, a duplicate the OS would refuse
\* yields Duplicate, and a call that ends in Protected or Duplicate has made
\* no globalShortcut call and no write
C32_CheckOrder ==
    [][\A key \in OrderKeys, a \in OrderAccelerators :
          UpdateShortcut(key, a) =>
              /\ a \in PROTECTED_SHORTCUTS
                    => /\ ev'.result = "Protected"
                       /\ ev'.regs = 0
                       /\ UNCHANGED settingsVars
              /\ (a \notin PROTECTED_SHORTCUTS /\ TakenByOther(key, a))
                    => /\ ev'.result = "Duplicate"
                       /\ ev'.regs = 0
                       /\ UNCHANGED settingsVars
              /\ (/\ a \notin PROTECTED_SHORTCUTS
                  /\ ~TakenByOther(key, a)
                  /\ (a \in foreign \/ a \in DOMAIN osTable))
                    => /\ ev'.result = "OSRejected"
                       /\ ev'.regs = 1
                       /\ UNCHANGED settingsVars
              /\ (/\ a \notin PROTECTED_SHORTCUTS
                  /\ ~TakenByOther(key, a)
                  /\ a \notin foreign
                  /\ a \notin DOMAIN osTable)
                    => /\ ev'.result = "pending"
                       /\ ev'.regs = 1
                       /\ Len(inflight') = Len(inflight) + 1
                       /\ disk' = disk]_vars

\* a call for another action with the protected accelerator screenshotChat
\* has was answered Protected
C32_Witness ==
    /\ ev.op = "update"
    /\ ev.result = "Protected"
    /\ ev.regs = 0
    /\ currentShortcuts["screenshotChat"] = "CommandOrControl+C"

---------------------------------------------------------------------------
(* Properties of the poll loop *)

\* the clipboard differs from what capture i read at its start, in the sense
\* of lines 165 and 175
ChangedFor(i) ==
    IF captures[i].originalText = "" THEN clipboard # ""
    ELSE clipboard # captures[i].originalText

\* C33: after the copy command captureSelectedText reads the clipboard at
\* most maxAttempts + 1 times, one delay before each read but the first; the
\* first read that shows a change ends the capture with that read's text,
\* and a capture goes on to another delay only after a read without change
C33_PollBounded ==
    [][\A i \in 1..Len(captures) :
          (CopyDelayDone(i) \/ PollDelayDone(i)) =>
              /\ ChangedFor(i)
                    => /\ Len(captures') < Len(captures)
                       /\ lastCapture'.result = clipboard
              /\ Len(captures') = Len(captures)
                    => /\ ~ChangedFor(i)
                       /\ captures'[i].pc = "poll"
                       /\ captures'[i].reads <= maxAttempts
                       /\ captures'[i].reads = captures'[i].attempt + 1
              /\ Len(captures') < Len(captures)
                    => /\ lastCapture'.reads <= maxAttempts + 1
                       /\ lastCapture'.reads = lastCapture'.delays + 1
                       /\ ~ChangedFor(i)
                             => /\ lastCapture'.reads = maxAttempts + 1
                                /\ lastCapture'.result = Null]_vars

\* a capture ended at a read in the middle of the loop, with the text that
\* read showed
C33_Witness ==
    /\ lastCapture.returned
    /\ ~lastCapture.threw
    /\ lastCapture.originalText = "orig"
    /\ lastCapture.result = "hello"
    /\ lastCapture.reads > 1
    /\ lastCapture.reads < maxAttempts + 1

---------------------------------------------------------------------------
(* Properties of the deferred callbacks *)

\* C34: once every deferred callback of showOverlayNearCursor has run and
\* the window exists, the window is not marked visible on all workspaces;
\* it is marked only while a clearing callback is pending
C34_WorkspaceFlagCleared ==
    /\ (deferred.timers = <<>> /\ overlay # "null") => ~deferred.flag
    /\ deferred.flag
          => \E j \in 1..Len(deferred.timers) : deferred.timers[j] = "clear"

\* the overlay was shown twice, all four callbacks ran on the window, and
\* the mark is gone
C34_Witness ==
    /\ overlay = "visible"
    /\ lastHandler.reshown
    /\ deferred.timers = <<>>
    /\ deferred.last.kind = "focus"
    /\ deferred.last.acted
    /\ ~deferred.flag

\* C38: a deferred callback of showOverlayNearCursor acts only on a window
\* that exists, also when the window was closed after the call that
\* scheduled it; the focus callback acts only on a window that has been
\* shown, and a window with a callback pending has been shown
C38_CallbacksGuarded ==
    /\ deferred.last.acted => deferred.last.window # "null"
    /\ (deferred.last.kind = "focus" /\ deferred.last.acted) => deferred.last.shown
    /\ (overlay # "null" /\ deferred.timers # <<>>) => deferred.shown

\* the window was closed before a callback ran: the callback did nothing
C38_Witness ==
    /\ deferred.last.kind = "focus"
    /\ ~deferred.last.acted
    /\ deferred.last.window = "null"
    /\ overlay = "null"
    /\ lastHandler.shown

---------------------------------------------------------------------------
(* Properties of closing the overlay *)

\* C35: when the overlay window is closed the handle is null and Escape is
\* not registered, and the process stays ready; the next
\* showOverlayNearCursor constructs exactly one window and shows it
C35_ClosedThenRebuilt ==
    [][/\ WindowClosed
            => /\ overlay' = "null"
               /\ windows' = 0
               /\ ~escapeRegistered'
               /\ "Escape" \notin DOMAIN osTable'
               /\ phase' = "ready"
       /\ (HandlerReturnStep /\ lastHandler'.shown /\ overlay = "null")
            => /\ overlay' = "visible"
               /\ windows = 0
               /\ windows' = 1
               /\ lastHandler'.built
               /\ lastHandler'.sent = 1]_vars

\* the window was closed while a capture was in flight; the handler built a
\* new one and showed it
C35_Witness ==
    /\ overlay = "visible"
    /\ windows = 1
    /\ lastHandler.shown
    /\ lastHandler.built
    /\ lastHandler.result = "Image"

---------------------------------------------------------------------------
(* Properties of the registry at rest *)

\* C37: whenever shortcuts are enabled and no settings handler is suspended,
\* the accelerators registered apart from Escape are exactly the bindings in
\* memory, also after a reset or an update whose write failed (no other
\* application holds an accelerator)
C37_RegisteredEqualBindingsAtRest ==
    (/\ phase = "ready"
     /\ ~shortcutsDisabled
     /\ inflight = <<>>
     /\ foreign = {})
    => /\ DOMAIN osTable \ {"Escape"} = Bound(currentShortcuts)
       /\ DOMAIN registeredShortcuts = Bound(currentShortcuts)


---------------------------------------------------------------------------
(* Properties of the settings UI protocol *)

\* C36: while a binding is being edited and the main process has handled
\* the disable-shortcuts request of that edit, the global shortcuts are
\* suspended, also after a rejected key combination or a failed save.
C36_SuspendedWhileEditing ==
    (ui.editingKey # "none" /\ ui.ack) => shortcutsDisabled

\* no get, update or reset call of the settings UI is unanswered
RpcsCompleted ==
    /\ ui.calls = <<>>
    /\ ui.replies = <<>>
    /\ \A j \in 1..Len(ui.queue) : ui.queue[j].op \in {"disable", "enable"}

\* C39: whenever the settings UI is mounted and every get, update and reset
\* call it made has completed, with success or failure, the bindings it
\* displays are the main process's in-memory bindings.
C39_DisplayedAreInMemory ==
    (ui.component = "mounted" /\ RpcsCompleted) => ui.shortcuts = currentShortcuts

====
